---- MODULE Spec2Model ----
(***************************************************************************)
(* Stream-reassembly engine of litellm: ChunkProcessor and                  *)
(* concatenate_base64_list                                                  *)
(* (src/litellm/litellm_core_utils/streaming_chunk_builder_utils.py).       *)
(*                                                                          *)
(* A caller collects the chunks of one streamed completion, constructs a    *)
(* ChunkProcessor over them and calls one of its methods.  Python values    *)
(* are modelled as follows:                                                 *)
(*   - an optional attribute / dict entry is Missing (no such key or        *)
(*     attribute), Null (present, None) or Val(x);                          *)
(*   - a str is a sequence of characters (<<>> is the empty string);        *)
(*   - a call either returns, Ok(v), or raises, Raise(e).                   *)
(***************************************************************************)
EXTENDS Integers, Sequences, FiniteSets, TLC

VARIABLES
    chunks,   \* the caller's list of chunks, in arrival order
    pc,       \* "collect" | "ready" | "failed" | "done"
    proc,     \* the ChunkProcessor: [chunks, first_chunk], or NoProc
    op,       \* the method last called on the processor ("" before any call)
    result,   \* what that call returned or raised
    counted,  \* the calls of token_counter that call made, with their outcomes
    args,     \* the arguments of that call other than the chunks, or NoArgs
    integration,  \* the EurekaIntegration: [eureka_client, on_error, zoned],
                  \* or NoIntegration
    calls     \* the calls the integration made to the Eureka client library
              \* and to on_error, in order, with their outcomes

vars == <<chunks, pc, proc, op, result, counted, args, integration, calls>>

----------------------------------------------------------------------------
(* Python values *)

Missing == [t |-> "missing"]
Null == [t |-> "null"]
Val(x) == [t |-> "val", v |-> x]

IsVal(o) == o.t = "val"

\* bool(x) of an optional int: None and 0 are falsy
TruthyInt(o) == IsVal(o) /\ o.v # 0

\* bool(x) of an optional str: None and "" are falsy
TruthyStr(o) == IsVal(o) /\ o.v # <<>>

Ok(x) == [ok |-> TRUE, v |-> x]
Raise(e) == [ok |-> FALSE, err |-> e]

NoProc == [t |-> "none"]
NoResult == [t |-> "none"]
NoArgs == [t |-> "none"]
NoIntegration == [t |-> "none"]

RECURSIVE Flatten(_)
\* "".join(list_of_str), also b"".join(list_of_bytes)
Flatten(ss) == IF ss = <<>> THEN <<>> ELSE Head(ss) \o Flatten(Tail(ss))

----------------------------------------------------------------------------
(* Shapes of the input.  Every chunk is one of these records with some      *)
(* fields changed; oid is the identity of the Python object (its position   *)
(* in the caller's list).                                                   *)

BaseUsage ==
    [prompt_tokens |-> Missing,
     completion_tokens |-> Missing,
     total_tokens |-> Missing,
     cache_creation_input_tokens |-> Missing,
     cache_read_input_tokens |-> Missing,
     completion_tokens_details |-> Missing,
     prompt_tokens_details |-> Missing]

BaseDelta ==
    [role |-> Missing,
     content |-> Missing,
     reasoning_content |-> Missing,
     thinking_blocks |-> Missing,
     tool_calls |-> Missing,
     function_call |-> Missing,
     audio |-> Missing]

BaseChoice == [delta |-> Val(BaseDelta), finish_reason |-> Missing]

BaseChunk ==
    [oid |-> 0,
     id |-> Missing,
     object |-> Missing,
     created |-> Missing,
     model |-> Missing,
     system_fingerprint |-> Missing,
     created_at |-> Missing,     \* _hidden_params["created_at"]
     hp_usage |-> Missing,       \* _hidden_params["usage"]
     is_response |-> TRUE,       \* isinstance(chunk, ModelResponse/ModelResponseStream)
     usage |-> Missing,
     choices |-> <<BaseChoice>>]

----------------------------------------------------------------------------
(* ChunkProcessor._sort_chunks *)

\* float("inf"), the sort key of a chunk without created_at
Inf == 99

HasHint(c) == IsVal(c.created_at)

\* key=lambda x: x._hidden_params.get("created_at", float("inf"))
SortKey(c) == IF c.created_at.t = "missing" THEN Inf ELSE c.created_at.v

\* one step of a stable insertion: x goes after every element whose key is <= its own
InsertStable(x, s) ==
    LET n == Cardinality({i \in 1..Len(s) : SortKey(s[i]) <= SortKey(x)})
    IN  SubSeq(s, 1, n) \o <<x>> \o SubSeq(s, n + 1, Len(s))

RECURSIVE SortedFrom(_, _)
SortedFrom(todo, done) ==
    IF todo = <<>> THEN done
    ELSE SortedFrom(Tail(todo), InsertStable(Head(todo), done))

\* sorted(chunks, key=...): Python's sort is stable and ascending
Sorted(chs) == SortedFrom(chs, <<>>)

\* a variant that puts x before the elements of equal key, and sorts whatever
\* the first chunk carries
InsertUnstable(x, s) ==
    LET n == Cardinality({i \in 1..Len(s) : SortKey(s[i]) < SortKey(x)})
    IN  SubSeq(s, 1, n) \o <<x>> \o SubSeq(s, n + 1, Len(s))

RECURSIVE SortedFromUnstable(_, _)
SortedFromUnstable(todo, done) ==
    IF todo = <<>> THEN done
    ELSE SortedFromUnstable(Tail(todo), InsertUnstable(Head(todo), done))

sort_chunks_unguarded(chs) == Ok(SortedFromUnstable(chs, <<>>))

\* a variant that sorts only when every chunk carries the hint
sort_chunks_all_hinted(chs) ==
    IF chs = <<>> THEN Ok(<<>>)
    ELSE IF \A i \in 1..Len(chs) : TruthyInt(chs[i].created_at)
         THEN Ok(Sorted(chs))
         ELSE Ok(chs)

\* a variant that rejects the empty list instead of returning it
sort_chunks_rejecting_empty(chs) ==
    IF chs = <<>> THEN Raise("ValueError")
    ELSE IF TruthyInt(chs[1].created_at)
         THEN IF \E i \in 1..Len(chs) : chs[i].created_at.t = "null" /\ Len(chs) > 1
              THEN Raise("TypeError")
              ELSE Ok(Sorted(chs))
         ELSE Ok(chs)

\* lines 40-47
sort_chunks(chs) ==
    IF chs = <<>> THEN Ok(<<>>)
    ELSE IF ~chs[1].is_response
         THEN Raise("AttributeError")      \* a dict has no _hidden_params
    ELSE IF TruthyInt(chs[1].created_at)
         THEN IF \E i \in 1..Len(chs) : ~chs[i].is_response
              THEN Raise("AttributeError")
         ELSE IF \E i \in 1..Len(chs) : chs[i].created_at.t = "null" /\ Len(chs) > 1
              THEN Raise("TypeError")      \* None compared with a float
         ELSE Ok(Sorted(chs))
    ELSE Ok(chs)

----------------------------------------------------------------------------
(* ChunkProcessor.__init__ *)

\* a variant that takes the first chunk of the ordered list
first_of_ordered(chs, ordered) == ordered[1]

\* line 38: self.first_chunk = chunks[0], the list the caller passed
first_chunk_of(chs, ordered) == chs[1]

Construct ==
    /\ pc = "collect"
    /\ LET s == sort_chunks(chunks)
       IN  IF ~s.ok
           THEN /\ pc' = "failed"
                /\ proc' = NoProc
                /\ result' = s
           ELSE IF chunks = <<>>
           THEN /\ pc' = "failed"          \* chunks[0] of an empty list
                /\ proc' = NoProc
                /\ result' = Raise("IndexError")
           ELSE /\ pc' = "ready"
                /\ proc' = [chunks |-> s.v, first_chunk |-> first_chunk_of(chunks, s.v)]
                /\ result' = NoResult
    /\ op' = "__init__"
    /\ UNCHANGED <<chunks, counted, args, integration, calls>>

----------------------------------------------------------------------------
(* Ordering: the caller collects chunks that differ in their ordering hint  *)

MaxSortChunks == 4

HintValues == {Missing, Val(0), Val(1), Val(2)}

ArriveHinted(h) ==
    /\ pc = "collect"
    /\ Len(chunks) < MaxSortChunks
    /\ chunks' = Append(chunks, [BaseChunk EXCEPT !.oid = Len(chunks) + 1,
                                                   !.created_at = h])
    /\ UNCHANGED <<pc, proc, op, result, counted, args, integration, calls>>

Init ==
    /\ chunks = <<>>
    /\ pc = "collect"
    /\ proc = NoProc
    /\ op = ""
    /\ result = NoResult
    /\ counted = <<>>
    /\ args = NoArgs
    /\ integration = NoIntegration
    /\ calls = <<>>

NextOrder ==
    \/ \E h \in HintValues : ArriveHinted(h)
    \/ Construct

SpecOrder == Init /\ [][NextOrder]_vars

(* Claims about the orderer *)

Constructed == pc \in {"ready", "failed"} /\ chunks # <<>>

AllHinted == \A i \in 1..Len(chunks) : HasHint(chunks[i])
NoneHinted == \A i \in 1..Len(chunks) : ~HasHint(chunks[i])
PartlyHinted == ~AllHinted /\ ~NoneHinted

\* out holds exactly the chunks of inp, ascending by key, and chunks of equal
\* key in their arrival order
IsStableSortOf(out, inp) ==
    /\ Len(out) = Len(inp)
    /\ \A i \in 1..Len(out) : out[i].oid \in 1..Len(inp) /\ out[i] = inp[out[i].oid]
    /\ \A i, j \in 1..Len(out) :
          i < j => \/ SortKey(out[i]) < SortKey(out[j])
                   \/ SortKey(out[i]) = SortKey(out[j]) /\ out[i].oid < out[j].oid

\* C6 (as claimed): when every chunk carries a numeric created_at hint, 0
\* included, the processor's chunks are the input stably sorted ascending by hint.
C6_SortedWhenAllHinted ==
    (Constructed /\ AllHinted) => pc = "ready" /\ IsStableSortOf(proc.chunks, chunks)

C8_IdentityWithoutHints ==
    (Constructed /\ NoneHinted) => pc = "ready" /\ proc.chunks = chunks

C8_Witness == pc = "ready" /\ NoneHinted /\ Len(chunks) >= 2 /\ proc.chunks = chunks

\* C24: constructing a processor over the empty sequence fails at once with
\* an IndexError and leaves no processor, although the orderer takes the
\* empty sequence and returns the empty list.
C24_EmptyInputFailsFast ==
    (op = "__init__" /\ chunks = <<>>) =>
        /\ sort_chunks(chunks) = Ok(<<>>)
        /\ pc = "failed"
        /\ result = Raise("IndexError")
        /\ proc = NoProc

C24_Witness == op = "__init__" /\ chunks = <<>> /\ pc = "failed"

----------------------------------------------------------------------------
(* ChunkProcessor._usage_chunk_calculation_helper                           *)
(*                                                                          *)
(* A details object (completion_tokens_details, prompt_tokens_details) of a *)
(* chunk is [kind, owner, ...]: kind "dict" or "obj" (an instance of the    *)
(* details class), owner the oid of the chunk holding it.  The helper       *)
(* passes an instance on as it is (owner kept: the same Python object) and  *)
(* builds a new object (owner 0) from a dict.                               *)

\* usage_chunk.get(key, 0) or 0, guarded by `key in usage_chunk`
CounterOrZero(o) == IF TruthyInt(o) THEN o.v ELSE 0

\* usage_chunk.get(key), guarded by `key in usage_chunk`: None unless a value
OptionalCounter(o) == IF IsVal(o) THEN o ELSE Null

DetailsOrNone(o) ==
    IF ~IsVal(o) THEN Null
    ELSE IF o.v.kind = "dict" THEN Val([o.v EXCEPT !.kind = "obj", !.owner = 0])
    ELSE Val(o.v)

usage_chunk_calculation_helper(usage_chunk) ==
    [prompt_tokens |-> CounterOrZero(usage_chunk.prompt_tokens),
     completion_tokens |-> CounterOrZero(usage_chunk.completion_tokens),
     cache_creation_input_tokens |-> OptionalCounter(usage_chunk.cache_creation_input_tokens),
     cache_read_input_tokens |-> OptionalCounter(usage_chunk.cache_read_input_tokens),
     completion_tokens_details |-> DetailsOrNone(usage_chunk.completion_tokens_details),
     prompt_tokens_details |-> DetailsOrNone(usage_chunk.prompt_tokens_details)]

----------------------------------------------------------------------------
(* ChunkProcessor._calculate_usage_per_chunk *)

\* the usage record the scan reads from a chunk: Null when there is none
UsageChunkOf(chunk) ==
    IF chunk.usage.t # "missing" THEN chunk.usage              \* "usage" in chunk
    ELSE IF chunk.is_response /\ IsVal(chunk.hp_usage) THEN chunk.hp_usage
    ELSE Null

InitialUsagePerChunk ==
    [prompt_tokens |-> 0,
     completion_tokens |-> 0,
     cache_creation_input_tokens |-> Null,
     cache_read_input_tokens |-> Null,
     web_search_requests |-> Null,
     completion_tokens_details |-> Null,
     prompt_tokens_details |-> Null]

\* a variant of the positive-only override that takes every value present
OverrideAlways(running, new) == new

\* lines 410-419: the chunk's counter replaces the running one only if positive
OverrideOnPositive(running, new) == IF new > 0 THEN new ELSE running

\* a variant in which every non-null counter replaces the running one
OverrideOnPresent(running, new) == IF IsVal(new) THEN new ELSE running

\* lines 420-433: a non-null counter replaces the running one if it is positive
\* or the running one is still None
OverrideOnPositiveOrUnset(running, new) ==
    IF IsVal(new) /\ (new.v > 0 \/ running = Null) THEN new ELSE running

\* a variant without the test of line 434: every usage record assigns
\* completion_tokens_details
UsageStepAssigningDetails(acc, chunk) ==
    LET usage_chunk == UsageChunkOf(chunk) IN
    IF ~IsVal(usage_chunk) THEN acc
    ELSE
    LET d == usage_chunk_calculation_helper(usage_chunk.v) IN
    [prompt_tokens |-> OverrideOnPositive(acc.prompt_tokens, d.prompt_tokens),
     completion_tokens |-> OverrideOnPositive(acc.completion_tokens, d.completion_tokens),
     cache_creation_input_tokens |->
        OverrideOnPositiveOrUnset(acc.cache_creation_input_tokens,
                                  d.cache_creation_input_tokens),
     cache_read_input_tokens |->
        OverrideOnPositiveOrUnset(acc.cache_read_input_tokens, d.cache_read_input_tokens),
     web_search_requests |->
        IF IsVal(d.prompt_tokens_details)
           /\ IsVal(d.prompt_tokens_details.v.web_search_requests)
        THEN d.prompt_tokens_details.v.web_search_requests
        ELSE acc.web_search_requests,
     completion_tokens_details |-> d.completion_tokens_details,
     prompt_tokens_details |-> d.prompt_tokens_details]       \* line 452

\* the body of the loop, for one chunk
UsageStep(acc, chunk) ==
    LET usage_chunk == UsageChunkOf(chunk) IN
    IF ~IsVal(usage_chunk) THEN acc
    ELSE
    LET d == usage_chunk_calculation_helper(usage_chunk.v) IN
    [prompt_tokens |-> OverrideOnPositive(acc.prompt_tokens, d.prompt_tokens),
     completion_tokens |-> OverrideOnPositive(acc.completion_tokens, d.completion_tokens),
     cache_creation_input_tokens |->
        OverrideOnPositiveOrUnset(acc.cache_creation_input_tokens,
                                  d.cache_creation_input_tokens),
     cache_read_input_tokens |->
        OverrideOnPositiveOrUnset(acc.cache_read_input_tokens, d.cache_read_input_tokens),
     web_search_requests |->
        IF IsVal(d.prompt_tokens_details)
           /\ IsVal(d.prompt_tokens_details.v.web_search_requests)
        THEN d.prompt_tokens_details.v.web_search_requests
        ELSE acc.web_search_requests,
     completion_tokens_details |->
        IF IsVal(d.completion_tokens_details) THEN d.completion_tokens_details
        ELSE acc.completion_tokens_details,
     prompt_tokens_details |-> d.prompt_tokens_details]       \* line 452

RECURSIVE UsageFold(_, _)
UsageFold(acc, chs) ==
    IF chs = <<>> THEN acc ELSE UsageFold(UsageStep(acc, Head(chs)), Tail(chs))

calculate_usage_per_chunk(chs) == UsageFold(InitialUsagePerChunk, chs)

----------------------------------------------------------------------------
(* ChunkProcessor.calculate_usage                                           *)
(*                                                                          *)
(* token_counter is outside the engine: a call of it returns a count,       *)
(* Ok(n), or raises.  prompt_count and completion_count are the outcomes of *)
(* the two calls, used only if the call is made.                            *)

\* a variant that adds up the aggregated counters instead of the returned ones
TotalOfAggregated(returned_prompt, returned_completion, agg) ==
    agg.prompt_tokens + agg.completion_tokens

\* lines 513-515
TotalTokens(returned_prompt, returned_completion, agg) ==
    returned_prompt + returned_completion

\* one call of token_counter: what it was asked to count and how it ended
PromptCall(outcome) ==
    [counts |-> "messages", count_response_tokens |-> FALSE, outcome |-> outcome]

CompletionCall(outcome) ==
    [counts |-> "completion_output", count_response_tokens |-> TRUE, outcome |-> outcome]

\* a variant without the try/except around the prompt fallback
PromptTokensUncaught(agg, prompt_count) ==
    IF agg.prompt_tokens # 0 THEN Ok(agg.prompt_tokens) ELSE prompt_count

\* lines 499-507: prompt_tokens or token_counter(...), 0 if that raises
ReturnedPromptTokens(agg, prompt_count) ==
    IF agg.prompt_tokens # 0 THEN Ok(agg.prompt_tokens)
    ELSE IF prompt_count.ok THEN Ok(prompt_count.v)
    ELSE Ok(0)

\* a variant that treats the completion fallback like the prompt fallback
CompletionTokensCaught(agg, completion_count) ==
    IF agg.completion_tokens # 0 THEN Ok(agg.completion_tokens)
    ELSE IF completion_count.ok THEN Ok(completion_count.v)
    ELSE Ok(0)

\* lines 508-512: completion_tokens or token_counter(...), outside any try
ReturnedCompletionTokens(agg, completion_count) ==
    IF agg.completion_tokens # 0 THEN Ok(agg.completion_tokens) ELSE completion_count

\* the calls of token_counter made by lines 499-512, in order
token_counter_calls(agg, prompt_count, completion_count) ==
    (IF agg.prompt_tokens = 0 THEN <<PromptCall(prompt_count)>> ELSE <<>>)
    \o
    (IF ReturnedPromptTokens(agg, prompt_count).ok /\ agg.completion_tokens = 0
     THEN <<CompletionCall(completion_count)>>
     ELSE <<>>)

\* a variant in which the caller's reasoning_tokens always wins
CompletionDetailsOverwritten(agg, reasoning_tokens) ==
    IF ~IsVal(reasoning_tokens) THEN agg.completion_tokens_details
    ELSE IF ~IsVal(agg.completion_tokens_details)
         THEN Val([kind |-> "obj", owner |-> 0, reasoning_tokens |-> reasoning_tokens])
    ELSE Val([agg.completion_tokens_details.v EXCEPT !.reasoning_tokens = reasoning_tokens])

\* lines 529-543
ReturnedCompletionDetails(agg, reasoning_tokens) ==
    IF ~IsVal(reasoning_tokens) THEN agg.completion_tokens_details
    ELSE IF ~IsVal(agg.completion_tokens_details)
         THEN Val([kind |-> "obj", owner |-> 0, reasoning_tokens |-> reasoning_tokens])
    ELSE IF ~IsVal(agg.completion_tokens_details.v.reasoning_tokens)
         THEN Val([agg.completion_tokens_details.v
                      EXCEPT !.reasoning_tokens = reasoning_tokens])
    ELSE agg.completion_tokens_details

\* lines 544-555 with the assignment of line 553 left out
PromptDetailsNeverFilled(agg) ==
    IF ~IsVal(agg.web_search_requests) THEN agg.prompt_tokens_details
    ELSE IF ~IsVal(agg.prompt_tokens_details)
         THEN Val([kind |-> "obj", owner |-> 0,
                   web_search_requests |-> agg.web_search_requests])
    ELSE agg.prompt_tokens_details

\* lines 544-555
ReturnedPromptDetails(agg) ==
    IF ~IsVal(agg.web_search_requests) THEN agg.prompt_tokens_details
    ELSE IF ~IsVal(agg.prompt_tokens_details)
         THEN Val([kind |-> "obj", owner |-> 0,
                   web_search_requests |-> agg.web_search_requests])
    ELSE Val([agg.prompt_tokens_details.v
                 EXCEPT !.web_search_requests = agg.web_search_requests])

\* The assignments of lines 541 and 553 write into the details object itself;
\* when that object is a chunk's own (owner # 0) the chunk changes too.
WrittenDetails(agg, reasoning_tokens) ==
    LET ctd == ReturnedCompletionDetails(agg, reasoning_tokens)
        ptd == ReturnedPromptDetails(agg)
    IN  (IF IsVal(ctd) /\ ctd # agg.completion_tokens_details /\ ctd.v.owner # 0
         THEN {[owner |-> ctd.v.owner, field |-> "completion_tokens_details",
                value |-> ctd]}
         ELSE {})
        \cup
        (IF IsVal(ptd) /\ IsVal(agg.web_search_requests) /\ ptd.v.owner # 0
         THEN {[owner |-> ptd.v.owner, field |-> "prompt_tokens_details", value |-> ptd]}
         ELSE {})

\* what calculate_usage returns (the Usage rebuilt from model_dump, line 559,
\* which copies the fields) or raises
calculate_usage(chs, prompt_count, completion_count, reasoning_tokens) ==
    LET agg == calculate_usage_per_chunk(chs)
        prompt == ReturnedPromptTokens(agg, prompt_count)
        completion == ReturnedCompletionTokens(agg, completion_count)
    IN  IF ~prompt.ok THEN prompt
        ELSE IF ~completion.ok THEN completion      \* line 508: not caught
        ELSE Ok([prompt_tokens |-> prompt.v,
                 completion_tokens |-> completion.v,
                 total_tokens |-> TotalTokens(prompt.v, completion.v, agg),
                 cache_creation_input_tokens |-> agg.cache_creation_input_tokens,
                 cache_read_input_tokens |-> agg.cache_read_input_tokens,
                 completion_tokens_details |->
                     ReturnedCompletionDetails(agg, reasoning_tokens),
                 prompt_tokens_details |-> ReturnedPromptDetails(agg)])

\* the chunk after the writes into its details objects
ChunkAfterWrites(chunk, writes) ==
    LET mine == {w \in writes : w.owner = chunk.oid}
        Field(u, f) == IF \E w \in mine : w.field = f
                       THEN (CHOOSE w \in mine : w.field = f).value
                       ELSE u[f]
        After(u) == [u EXCEPT
                       !.completion_tokens_details = Field(u, "completion_tokens_details"),
                       !.prompt_tokens_details = Field(u, "prompt_tokens_details")]
    IN  IF mine = {} THEN chunk
        ELSE IF chunk.usage.t # "missing"
             THEN [chunk EXCEPT !.usage = Val(After(chunk.usage.v))]
             ELSE [chunk EXCEPT !.hp_usage = Val(After(chunk.hp_usage.v))]

AfterWrites(chs, writes) == [i \in 1..Len(chs) |-> ChunkAfterWrites(chs[i], writes)]

CalculateUsagePerChunk ==
    /\ pc = "ready"
    /\ pc' = "done"
    /\ op' = "_calculate_usage_per_chunk"
    /\ result' = Ok(calculate_usage_per_chunk(proc.chunks))
    /\ UNCHANGED <<chunks, proc, counted, args, integration, calls>>

CalculateUsage(prompt_count, completion_count, reasoning_tokens) ==
    /\ pc = "ready"
    /\ pc' = "done"
    /\ op' = "calculate_usage"
    /\ LET r == calculate_usage(proc.chunks, prompt_count, completion_count,
                                reasoning_tokens)
           writes == IF r.ok
                     THEN WrittenDetails(calculate_usage_per_chunk(proc.chunks),
                                         reasoning_tokens)
                     ELSE {}
       IN  /\ result' = r
           /\ chunks' = AfterWrites(chunks, writes)
           /\ proc' = [chunks |-> AfterWrites(proc.chunks, writes),
                       first_chunk |-> ChunkAfterWrites(proc.first_chunk, writes)]
           /\ counted' = token_counter_calls(calculate_usage_per_chunk(proc.chunks),
                                             prompt_count, completion_count)
    /\ args' = [reasoning_tokens |-> reasoning_tokens]
    /\ UNCHANGED <<integration, calls>>

----------------------------------------------------------------------------
(* Usage: the caller collects chunks that differ in their usage record      *)

MaxUsageChunks == 2

CounterValues == {Missing, Null, Val(0), Val(1), Val(2)}

\* the total_tokens a usage record carries: the sum of no two counts that the
\* records and the tokenizer of this model can produce
UpstreamTotals == {Val(9)}

UsageRecords ==
    {[BaseUsage EXCEPT !.prompt_tokens = p, !.completion_tokens = c, !.total_tokens = t] :
        p \in CounterValues, c \in CounterValues, t \in UpstreamTotals}

PromptCounts == {Raise("token_counter"), Ok(3)}
CompletionCounts == {Raise("token_counter"), Ok(4)}

ArriveUsage(u) ==
    /\ pc = "collect"
    /\ Len(chunks) < MaxUsageChunks
    /\ chunks' = Append(chunks, [BaseChunk EXCEPT !.oid = Len(chunks) + 1, !.usage = u])
    /\ UNCHANGED <<pc, proc, op, result, counted, args, integration, calls>>

NextUsage ==
    \/ \E u \in {Missing} \cup {Val(r) : r \in UsageRecords} : ArriveUsage(u)
    \/ Construct
    \/ CalculateUsagePerChunk
    \/ \E p \in PromptCounts, c \in CompletionCounts : CalculateUsage(p, c, Null)

SpecUsage == Init /\ [][NextUsage]_vars

(* Claims about the usage aggregator *)

Returned(name) == pc = "done" /\ op = name /\ result.ok

\* the positions of the scanned chunks whose usage record has a positive counter f
PositiveAt(f) ==
    {i \in 1..Len(proc.chunks) :
        /\ IsVal(proc.chunks[i].usage)
        /\ IsVal(proc.chunks[i].usage.v[f])
        /\ proc.chunks[i].usage.v[f].v > 0}

LastOf(S) == CHOOSE i \in S : \A j \in S : j <= i

LastPositive(f) ==
    IF PositiveAt(f) = {} THEN 0
    ELSE proc.chunks[LastOf(PositiveAt(f))].usage.v[f].v

\* C1: whenever calculate_usage returns, total_tokens of the returned Usage is
\* prompt_tokens + completion_tokens, whatever total_tokens the chunks carry.
C1_TotalIsSum ==
    Returned("calculate_usage") =>
        result.v.total_tokens = result.v.prompt_tokens + result.v.completion_tokens

C1_Witness ==
    /\ Returned("calculate_usage")
    /\ \E i \in 1..Len(chunks) :
          IsVal(chunks[i].usage) /\ chunks[i].usage.v.total_tokens = Val(9)
    /\ result.v.prompt_tokens = 2
    /\ result.v.completion_tokens = 4
    /\ calculate_usage_per_chunk(proc.chunks).completion_tokens = 0
    /\ result.v.total_tokens = 6

\* C2: the aggregated prompt_tokens, and likewise completion_tokens, is the
\* value of the last usage record, in scan order, whose counter is present and
\* positive, and 0 when there is none.
C2_LastPositiveWins ==
    Returned("_calculate_usage_per_chunk") =>
        /\ result.v.prompt_tokens = LastPositive("prompt_tokens")
        /\ result.v.completion_tokens = LastPositive("completion_tokens")

C2_Witness ==
    /\ Returned("_calculate_usage_per_chunk")
    /\ Len(chunks) = 2
    /\ IsVal(chunks[1].usage) /\ IsVal(chunks[2].usage)
    /\ chunks[1].usage.v.prompt_tokens = Val(2)
    /\ chunks[2].usage.v.prompt_tokens = Val(0)
    /\ result.v.prompt_tokens = 2
    /\ chunks[1].usage.v.completion_tokens = Val(0)
    /\ chunks[2].usage.v.completion_tokens = Val(1)
    /\ result.v.completion_tokens = 1

Called(name) == pc = "done" /\ op = name

\* the calls of token_counter the last operation made for one of its two inputs
CallsCounting(what) == SelectSeq(counted, LAMBDA call : call.counts = what)

PromptFallbackFailed ==
    /\ Called("calculate_usage")
    /\ CallsCounting("messages") # <<>>
    /\ ~CallsCounting("messages")[1].outcome.ok

\* the first half of C11: the aggregated value when it is positive, otherwise
\* what the tokenizer counted over the messages
PromptIsAggregatedOrCounted ==
    Returned("calculate_usage") =>
        IF LastPositive("prompt_tokens") > 0
        THEN /\ CallsCounting("messages") = <<>>
             /\ result.v.prompt_tokens = LastPositive("prompt_tokens")
        ELSE /\ Len(CallsCounting("messages")) = 1
             /\ ~CallsCounting("messages")[1].count_response_tokens
             /\ CallsCounting("messages")[1].outcome.ok =>
                    result.v.prompt_tokens = CallsCounting("messages")[1].outcome.v

\* completion_tokens and total_tokens "as usual": the aggregated value when
\* positive, else the tokenizer's count of the completion text; their sum
RestAsUsual ==
    /\ result.v.completion_tokens =
          IF LastPositive("completion_tokens") > 0
          THEN LastPositive("completion_tokens")
          ELSE CallsCounting("completion_output")[1].outcome.v
    /\ result.v.total_tokens = result.v.prompt_tokens + result.v.completion_tokens

\* C11 (as claimed): prompt_tokens is the aggregated value when positive and
\* otherwise the tokenizer's count over the messages; when that tokenizer call
\* fails, calculate_usage does not fail: it returns a Usage with prompt_tokens
\* 0 and with completion_tokens and total_tokens computed as usual.
C11_PromptFallbackNeverFails ==
    /\ PromptIsAggregatedOrCounted
    /\ PromptFallbackFailed =>
          /\ result.ok
          /\ result.v.prompt_tokens = 0
          /\ RestAsUsual

\* C11 (amended): as C11, but when the tokenizer call for the prompt fails the
\* call goes on with prompt_tokens 0, and a Usage is returned unless the
\* completion fallback is needed too and its own tokenizer call fails, in
\* which case that failure is what calculate_usage raises.
C11_PromptFallbackAbsorbed ==
    /\ PromptIsAggregatedOrCounted
    /\ PromptFallbackFailed =>
          IF /\ LastPositive("completion_tokens") = 0
             /\ CallsCounting("completion_output") # <<>>
             /\ ~CallsCounting("completion_output")[1].outcome.ok
          THEN result = CallsCounting("completion_output")[1].outcome
          ELSE /\ result.ok
               /\ result.v.prompt_tokens = 0
               /\ RestAsUsual

C11_Witness ==
    /\ Returned("calculate_usage")
    /\ PromptFallbackFailed
    /\ result.v.prompt_tokens = 0
    /\ CallsCounting("completion_output") # <<>>
    /\ result.v.completion_tokens = 4
    /\ result.v.total_tokens = 4

\* C12: completion_tokens is the aggregated value when that is positive (the
\* tokenizer is then not asked) and otherwise the tokenizer's count of the
\* completion text, asked for in response mode; when that tokenizer call
\* fails, calculate_usage raises its error and returns no Usage.
C12_CompletionFallbackPropagates ==
    Called("calculate_usage") =>
        IF LastPositive("completion_tokens") > 0
        THEN /\ CallsCounting("completion_output") = <<>>
             /\ result.ok
             /\ result.v.completion_tokens = LastPositive("completion_tokens")
        ELSE /\ Len(CallsCounting("completion_output")) = 1
             /\ CallsCounting("completion_output")[1].count_response_tokens
             /\ IF CallsCounting("completion_output")[1].outcome.ok
                THEN /\ result.ok
                     /\ result.v.completion_tokens =
                            CallsCounting("completion_output")[1].outcome.v
                ELSE result = CallsCounting("completion_output")[1].outcome

C12_Witness ==
    /\ Called("calculate_usage")
    /\ LastPositive("completion_tokens") = 0
    /\ LastPositive("prompt_tokens") > 0
    /\ ~result.ok
    /\ result = Raise("token_counter")
    /\ counted = <<CompletionCall(Raise("token_counter"))>>

----------------------------------------------------------------------------
(* Usage in the side channel: the caller collects response chunks whose     *)
(* usage attribute is absent, None or a record counting 1 and 1, and whose  *)
(* hidden_params have no "usage" entry, a None one or a record counting 2   *)
(* and 2                                                                    *)

MaxSideChunks == 2

ArriveSideUsage(u, h) ==
    /\ pc = "collect"
    /\ Len(chunks) < MaxSideChunks
    /\ chunks' = Append(chunks, [BaseChunk EXCEPT !.oid = Len(chunks) + 1,
                                                   !.usage = u, !.hp_usage = h])
    /\ UNCHANGED <<pc, proc, op, result, counted, args, integration, calls>>

NextSide ==
    \/ \E u \in {Missing, Null,
                 Val([BaseUsage EXCEPT !.prompt_tokens = Val(1),
                                       !.completion_tokens = Val(1)])},
          h \in {Missing, Null,
                 Val([BaseUsage EXCEPT !.prompt_tokens = Val(2),
                                       !.completion_tokens = Val(2)])} :
          ArriveSideUsage(u, h)
    \/ Construct
    \/ CalculateUsagePerChunk

SpecSide == Init /\ [][NextSide]_vars

(* Claims about the source of a chunk's usage record *)

\* the usage record a chunk contributes: its usage attribute when that holds a
\* record, otherwise the record of its hidden_params, Null when it has neither
ContributedBy(chunk) ==
    IF IsVal(chunk.usage) THEN chunk.usage
    ELSE IF IsVal(chunk.hp_usage) THEN chunk.hp_usage
    ELSE Null

ContributingAt == {i \in 1..Len(proc.chunks) : IsVal(ContributedBy(proc.chunks[i]))}

\* the counter f of the last contributed record, 0 when no chunk contributes
LastContributed(f) ==
    IF ContributingAt = {} THEN 0
    ELSE ContributedBy(proc.chunks[LastOf(ContributingAt)]).v[f].v

\* C25: every chunk contributes the record of its usage attribute when it has
\* one and otherwise, its usage being absent or None, the record of its
\* hidden_params; a chunk with neither changes no counter.  With every
\* record's counters positive, the aggregated prompt_tokens and
\* completion_tokens are those of the last contributed record.
C25_UsageFromFieldElseSideChannel ==
    Returned("_calculate_usage_per_chunk") =>
        /\ result.v.prompt_tokens = LastContributed("prompt_tokens")
        /\ result.v.completion_tokens = LastContributed("completion_tokens")

----------------------------------------------------------------------------
(* Usage details: the caller collects chunks whose usage records carry      *)
(* completion_tokens_details and prompt_tokens_details, each absent, None,  *)
(* a dict or an instance of the details class                               *)

MaxDetailChunks == 2

\* the details a chunk may carry; upstream reports reasoning_tokens 7 or none,
\* and 1, 2 or no web_search_requests
CompletionDetailsOf(oid) ==
    {Missing} \cup
    {Val([kind |-> k, owner |-> oid, reasoning_tokens |-> r]) :
        k \in {"dict", "obj"}, r \in {Null, Val(7)}}

PromptDetailsOf(oid) ==
    {Missing} \cup
    {Val([kind |-> k, owner |-> oid, web_search_requests |-> w]) :
        k \in {"dict", "obj"}, w \in {Null, Val(1), Val(2)}}

\* the usage records of the chunk oid: each details attribute absent, a dict or
\* an instance, or both attributes present and None
DetailRecords(oid) ==
    {[BaseUsage EXCEPT !.prompt_tokens = Val(1), !.completion_tokens = Val(1),
                       !.completion_tokens_details = c, !.prompt_tokens_details = p] :
        c \in CompletionDetailsOf(oid), p \in PromptDetailsOf(oid)}
    \cup
    {[BaseUsage EXCEPT !.prompt_tokens = Val(1), !.completion_tokens = Val(1),
                       !.completion_tokens_details = Null,
                       !.prompt_tokens_details = Null]}

ArriveDetailUsage(u) ==
    /\ pc = "collect"
    /\ Len(chunks) < MaxDetailChunks
    /\ chunks' = Append(chunks, [BaseChunk EXCEPT !.oid = Len(chunks) + 1, !.usage = u])
    /\ UNCHANGED <<pc, proc, op, result, counted, args, integration, calls>>

NextDetails ==
    \/ \E u \in {Missing} \cup {Val(r) : r \in DetailRecords(Len(chunks) + 1)} :
          ArriveDetailUsage(u)
    \/ Construct
    \/ CalculateUsagePerChunk
    \/ \E reasoning_tokens \in {Null, Val(5)} :
          CalculateUsage(Ok(3), Ok(4), reasoning_tokens)

SpecDetails == Init /\ [][NextDetails]_vars

(* Claims about the details objects *)

\* C13: no operation on a constructed processor changes the caller's chunk
\* list: every chunk, with its usage record and the details objects in it, is
\* after the operation what it was before, and in the same position.
C13_ChunksAreReadOnly == [][pc # "collect" => chunks' = chunks]_vars

\* the positions of the scanned chunks whose usage record carries the details f
DetailsAt(f) ==
    {i \in 1..Len(proc.chunks) :
        IsVal(proc.chunks[i].usage) /\ IsVal(proc.chunks[i].usage.v[f])}

\* the details f of the last usage record that carries them, Null if none does
LastDetails(f) ==
    IF DetailsAt(f) = {} THEN Null
    ELSE proc.chunks[LastOf(DetailsAt(f))].usage.v[f]

\* C16: the aggregated prompt_tokens_details is that of the last usage record
\* carrying one; a later usage record without it leaves it in place, and it is
\* unset only when no record carries one.
C16_PromptDetailsKept ==
    Returned("_calculate_usage_per_chunk") =>
        IF DetailsAt("prompt_tokens_details") = {}
        THEN result.v.prompt_tokens_details = Null
        ELSE /\ IsVal(result.v.prompt_tokens_details)
             /\ result.v.prompt_tokens_details.v.web_search_requests =
                    LastDetails("prompt_tokens_details").v.web_search_requests

\* C34: the aggregated completion_tokens_details are those of the last usage
\* record carrying them; a later usage record without them leaves them in
\* place, and they are unset only when no record carries any.
C34_CompletionDetailsKept ==
    Returned("_calculate_usage_per_chunk") =>
        IF DetailsAt("completion_tokens_details") = {}
        THEN result.v.completion_tokens_details = Null
        ELSE /\ IsVal(result.v.completion_tokens_details)
             /\ result.v.completion_tokens_details.v.reasoning_tokens =
                    LastDetails("completion_tokens_details").v.reasoning_tokens
             /\ result.v.completion_tokens_details.v.owner \in
                    {0, LastOf(DetailsAt("completion_tokens_details"))}

\* the first record reports 7 reasoning tokens, the second carries none
C34_Witness ==
    /\ Returned("_calculate_usage_per_chunk")
    /\ DetailsAt("completion_tokens_details") = {1}
    /\ Len(proc.chunks) = 2
    /\ IsVal(proc.chunks[2].usage)
    /\ result.v.completion_tokens_details.v.reasoning_tokens = Val(7)

\* C20: when the caller supplies reasoning_tokens, the returned
\* completion_tokens_details.reasoning_tokens is the upstream value if the
\* aggregated details (those of the last usage record carrying them, as they
\* were before the call) have one, and the caller's value otherwise.
C20_CallerReasoningOnlyFillsGap ==
    [][(/\ pc = "ready"
        /\ pc' = "done"
        /\ op' = "calculate_usage"
        /\ result'.ok
        /\ IsVal(args'.reasoning_tokens)) =>
            /\ IsVal(result'.v.completion_tokens_details)
            /\ result'.v.completion_tokens_details.v.reasoning_tokens =
                  IF /\ IsVal(LastDetails("completion_tokens_details"))
                     /\ IsVal(LastDetails("completion_tokens_details").v.reasoning_tokens)
                  THEN LastDetails("completion_tokens_details").v.reasoning_tokens
                  ELSE args'.reasoning_tokens]_vars

C20_Witness ==
    /\ Returned("calculate_usage")
    /\ args.reasoning_tokens = Val(5)
    /\ Len(chunks) = 2
    /\ IsVal(chunks[1].usage)
    /\ IsVal(chunks[1].usage.v.completion_tokens_details)
    /\ chunks[1].usage.v.completion_tokens_details.v.reasoning_tokens = Val(7)
    /\ IsVal(chunks[2].usage)
    /\ chunks[2].usage.v.completion_tokens_details = Null
    /\ result.v.completion_tokens_details.v.reasoning_tokens = Val(7)

C20_WitnessFilled ==
    /\ Returned("calculate_usage")
    /\ args.reasoning_tokens = Val(5)
    /\ DetailsAt("completion_tokens_details") = {}
    /\ result.v.completion_tokens_details.v.reasoning_tokens = Val(5)

\* the positions of the scanned chunks that carry a usage record
UsageAt == {i \in 1..Len(proc.chunks) : IsVal(proc.chunks[i].usage)}

\* the prompt_tokens_details the aggregation ends with: those of the last
\* usage record, none when it carries none
FinalPromptDetails ==
    IF UsageAt = {} THEN Null
    ELSE proc.chunks[LastOf(UsageAt)].usage.v.prompt_tokens_details

\* the positions whose prompt_tokens_details report a web_search_requests
SearchesAt ==
    {i \in DetailsAt("prompt_tokens_details") :
        IsVal(proc.chunks[i].usage.v.prompt_tokens_details.v.web_search_requests)}

AggregatedSearches ==
    IF SearchesAt = {} THEN Null
    ELSE proc.chunks[LastOf(SearchesAt)].usage.v.prompt_tokens_details.v.web_search_requests

\* C21: calculate_usage returns the final prompt_tokens_details (as they were
\* before the call) with their own web_search_requests when they have one, and
\* with the aggregated web_search_requests put in only when they have none; a
\* value already there is never replaced by a different one.
C21_SearchesOnlyFillGap ==
    [][(/\ pc = "ready"
        /\ pc' = "done"
        /\ op' = "calculate_usage"
        /\ result'.ok) =>
            IF /\ IsVal(FinalPromptDetails)
               /\ IsVal(FinalPromptDetails.v.web_search_requests)
            THEN /\ IsVal(result'.v.prompt_tokens_details)
                 /\ result'.v.prompt_tokens_details.v.web_search_requests =
                       FinalPromptDetails.v.web_search_requests
            ELSE IF IsVal(AggregatedSearches)
            THEN /\ IsVal(result'.v.prompt_tokens_details)
                 /\ result'.v.prompt_tokens_details.v.web_search_requests =
                       AggregatedSearches
            ELSE \/ ~IsVal(result'.v.prompt_tokens_details)
                 \/ ~IsVal(result'.v.prompt_tokens_details.v.web_search_requests)]_vars

\* an earlier record reported 1 search, the last record's details are a dict
\* reporting none: the returned details report 1
C21_Witness ==
    /\ Returned("calculate_usage")
    /\ Len(chunks) = 2
    /\ IsVal(chunks[1].usage)
    /\ IsVal(chunks[1].usage.v.prompt_tokens_details)
    /\ chunks[1].usage.v.prompt_tokens_details.v.web_search_requests = Val(1)
    /\ IsVal(chunks[2].usage)
    /\ IsVal(chunks[2].usage.v.prompt_tokens_details)
    /\ chunks[2].usage.v.prompt_tokens_details.v.kind = "dict"
    /\ chunks[2].usage.v.prompt_tokens_details.v.web_search_requests = Null
    /\ result.v.prompt_tokens_details.v.web_search_requests = Val(1)

\* the last record reports 2 searches after an earlier 1: the 2 is kept
C21_WitnessKept ==
    /\ Returned("calculate_usage")
    /\ Len(chunks) = 2
    /\ IsVal(chunks[1].usage)
    /\ IsVal(chunks[1].usage.v.prompt_tokens_details)
    /\ chunks[1].usage.v.prompt_tokens_details.v.web_search_requests = Val(1)
    /\ IsVal(chunks[2].usage)
    /\ IsVal(chunks[2].usage.v.prompt_tokens_details)
    /\ chunks[2].usage.v.prompt_tokens_details.v.web_search_requests = Val(2)
    /\ result.v.prompt_tokens_details.v.web_search_requests = Val(2)

----------------------------------------------------------------------------
(* Prompt caching: the caller collects chunks whose usage records carry the *)
(* two cache counters                                                       *)

MaxCacheChunks == 3

CacheRecords ==
    {[BaseUsage EXCEPT !.cache_creation_input_tokens = c, !.cache_read_input_tokens = r] :
        c \in {Missing, Null, Val(0), Val(1), Val(2)}, r \in {Missing, Val(0), Val(3)}}

ArriveCacheUsage(u) ==
    /\ pc = "collect"
    /\ Len(chunks) < MaxCacheChunks
    /\ chunks' = Append(chunks, [BaseChunk EXCEPT !.oid = Len(chunks) + 1, !.usage = u])
    /\ UNCHANGED <<pc, proc, op, result, counted, args, integration, calls>>

NextCache ==
    \/ \E u \in {Missing} \cup {Val(r) : r \in CacheRecords} : ArriveCacheUsage(u)
    \/ Construct
    \/ CalculateUsagePerChunk

SpecCache == Init /\ [][NextCache]_vars

(* Claims about the cache counters *)

\* the positions of the scanned chunks whose usage record has a non-null counter f
PresentAt(f) ==
    {i \in 1..Len(proc.chunks) :
        IsVal(proc.chunks[i].usage) /\ IsVal(proc.chunks[i].usage.v[f])}

FirstOf(S) == CHOOSE i \in S : \A j \in S : i <= j

\* what override-on-positive-or-unset leaves: the last positive value; if there
\* is none, the first value recorded; unset if no record carries the counter
PositiveOrFirst(f) ==
    IF PositiveAt(f) # {} THEN proc.chunks[LastOf(PositiveAt(f))].usage.v[f]
    ELSE IF PresentAt(f) # {} THEN proc.chunks[FirstOf(PresentAt(f))].usage.v[f]
    ELSE Null

\* C15: for each of the two cache counters the aggregate is the last positive
\* value of the usage records or, when no record has a positive one, the first
\* non-null value (a later 0 does not replace an earlier value, a first 0 is
\* recorded), and it is unset when every record's value is null or missing.
C15_CacheOverrideOnPositiveOrUnset ==
    Returned("_calculate_usage_per_chunk") =>
        /\ result.v.cache_creation_input_tokens =
              PositiveOrFirst("cache_creation_input_tokens")
        /\ result.v.cache_read_input_tokens = PositiveOrFirst("cache_read_input_tokens")

C15_Witness ==
    /\ Returned("_calculate_usage_per_chunk")
    /\ Len(chunks) = 3
    /\ chunks[1].usage = Missing
    /\ IsVal(chunks[2].usage) /\ IsVal(chunks[3].usage)
    /\ chunks[2].usage.v.cache_creation_input_tokens = Val(2)
    /\ chunks[3].usage.v.cache_creation_input_tokens = Val(0)
    /\ result.v.cache_creation_input_tokens = Val(2)
    /\ chunks[2].usage.v.cache_read_input_tokens = Val(0)
    /\ chunks[3].usage.v.cache_read_input_tokens = Missing
    /\ result.v.cache_read_input_tokens = Val(0)

----------------------------------------------------------------------------
(* ChunkProcessor.get_combined_tool_content                                 *)
(*                                                                          *)
(* A tool-call delta is Null (None) or Val of                               *)
(*   [index, id, type, function], each Missing, Null or Val; function is    *)
(*   Val([name, arguments]).                                                *)
(* tool_call_map is kept as the sequence of its entries in insertion order  *)
(* (a Python dict), each [index, id, name, type, arguments].                *)

RECURSIVE ConcatAll(_)
\* the elements of a sequence of sequences, in order
ConcatAll(ss) == IF ss = <<>> THEN <<>> ELSE Head(ss) \o ConcatAll(Tail(ss))

\* "{}"
EmptyJsonObject == <<"{", "}">>

\* getattr(tool_call, "index", 0)
IndexOf(tool_call) == IF IsVal(tool_call.index) THEN tool_call.index.v ELSE 0

\* line 130: `not tool_call or not hasattr(tool_call, "function")`
Skipped(tc) == ~IsVal(tc) \/ tc.v.function.t = "missing"

HasKey(map, index) == \E k \in 1..Len(map) : map[k].index = index

KeyPos(map, index) == CHOOSE k \in 1..Len(map) : map[k].index = index

\* a variant that keeps only the latest fragment
ReplaceArguments(arguments, fragment) == <<fragment>>

\* lines 156-158
AppendArguments(arguments, fragment) == Append(arguments, fragment)

\* a variant in which the first id, type and name seen are kept
AccumulateFirstWins(entry, tool_call) ==
    LET f == tool_call.function
        e1 == IF TruthyStr(tool_call.id) /\ ~IsVal(entry.id)
              THEN [entry EXCEPT !.id = tool_call.id] ELSE entry
        e2 == IF TruthyStr(tool_call.type) /\ ~IsVal(e1.type)
              THEN [e1 EXCEPT !.type = tool_call.type] ELSE e1
        e3 == IF IsVal(f) /\ TruthyStr(f.v.name) /\ ~IsVal(e2.name)
              THEN [e2 EXCEPT !.name = f.v.name] ELSE e2
    IN  IF IsVal(f) /\ TruthyStr(f.v.arguments)
        THEN [e3 EXCEPT !.arguments = AppendArguments(e3.arguments, f.v.arguments.v)]
        ELSE e3

\* lines 142-158: the entry of the delta's index after the delta
Accumulate(entry, tool_call) ==
    LET f == tool_call.function
        e1 == IF TruthyStr(tool_call.id) THEN [entry EXCEPT !.id = tool_call.id] ELSE entry
        e2 == IF TruthyStr(tool_call.type) THEN [e1 EXCEPT !.type = tool_call.type] ELSE e1
        e3 == IF IsVal(f) /\ TruthyStr(f.v.name) THEN [e2 EXCEPT !.name = f.v.name] ELSE e2
    IN  IF IsVal(f) /\ TruthyStr(f.v.arguments)
        THEN [e3 EXCEPT !.arguments = AppendArguments(e3.arguments, f.v.arguments.v)]
        ELSE e3

\* lines 129-158, for one tool-call delta
ToolStep(map, tc) ==
    IF Skipped(tc) THEN map
    ELSE
    LET index == IndexOf(tc.v)
        m1 == IF HasKey(map, index) THEN map
              ELSE Append(map, [index |-> index, id |-> Null, name |-> Null,
                                type |-> Null, arguments |-> <<>>])
        k == KeyPos(m1, index)
    IN  [m1 EXCEPT ![k] = Accumulate(m1[k], tc.v)]

RECURSIVE ToolFold(_, _)
ToolFold(map, tcs) ==
    IF tcs = <<>> THEN map ELSE ToolFold(ToolStep(map, Head(tcs)), Tail(tcs))

\* the tool-call deltas of one choice: delta.get("tool_calls", [])
ToolCallsOfChoice(choice) ==
    IF choice.delta.t = "missing" THEN Ok(<<>>)            \* choice.get("delta", {})
    ELSE IF choice.delta.t = "null" THEN Raise("AttributeError")
    ELSE IF choice.delta.v.tool_calls.t = "missing" THEN Ok(<<>>)
    ELSE IF choice.delta.v.tool_calls.t = "null" THEN Raise("TypeError")
    ELSE Ok(choice.delta.v.tool_calls.v)

\* the choices of all chunks, in order
AllChoices(chs) == ConcatAll([i \in 1..Len(chs) |-> chs[i].choices])

\* a variant that takes the keys in the order they were inserted
InsertionOrder(map) == map

RECURSIVE ByAscendingIndex(_)
\* line 161: the entries in the order of sorted(tool_call_map.keys())
ByAscendingIndex(map) ==
    IF map = <<>> THEN <<>>
    ELSE LET k == CHOOSE i \in 1..Len(map) :
                     \A j \in 1..Len(map) : map[i].index <= map[j].index
             rest == [i \in 1..(Len(map) - 1) |-> IF i < k THEN map[i] ELSE map[i + 1]]
         IN  <<map[k]>> \o ByAscendingIndex(rest)

\* a variant that asks for an id or a name
EmittedWithEither(entry) == TruthyStr(entry.id) \/ TruthyStr(entry.name)

\* line 163
Emitted(entry) == TruthyStr(entry.id) /\ TruthyStr(entry.name)

\* lines 164-174; index is not a field of the emitted tool call: it records the
\* key the tool call was built from
ToolCallOf(entry) ==
    [index |-> entry.index,
     id |-> entry.id,
     name |-> entry.name,
     arguments |-> IF Flatten(entry.arguments) # <<>> THEN Flatten(entry.arguments)
                   ELSE EmptyJsonObject,
     type |-> IF TruthyStr(entry.type) THEN entry.type.v ELSE <<"function">>]

get_combined_tool_content(tool_call_chunks) ==
    LET per_choice == [i \in 1..Len(AllChoices(tool_call_chunks)) |->
                          ToolCallsOfChoice(AllChoices(tool_call_chunks)[i])]
        failing == {i \in 1..Len(per_choice) : ~per_choice[i].ok}
    IN  IF failing # {}
        THEN per_choice[CHOOSE i \in failing : \A j \in failing : i <= j]
        ELSE
        LET deltas == ConcatAll([i \in 1..Len(per_choice) |-> per_choice[i].v])
            ordered == ByAscendingIndex(ToolFold(<<>>, deltas))
            kept == SelectSeq(ordered, Emitted)
        IN  Ok([i \in 1..Len(kept) |-> ToolCallOf(kept[i])])

GetCombinedToolContent ==
    /\ pc = "ready"
    /\ pc' = "done"
    /\ op' = "get_combined_tool_content"
    /\ result' = get_combined_tool_content(proc.chunks)
    /\ UNCHANGED <<chunks, proc, counted, args, integration, calls>>

----------------------------------------------------------------------------
(* Tool calls: the caller collects chunks that carry tool-call deltas       *)

MaxToolDeltas == 2

ToolIndexes == {Val(0), Val(1)}
ToolIds == {Null, Val(<<"c1">>)}
ToolNames == {Val(<<>>), Val(<<"f">>)}
ToolArguments == {Null, Val(<<>>), Val(<<"a">>), Val(<<"b">>)}

ToolDeltas ==
    {Val([index |-> i, id |-> d, type |-> Missing,
          function |-> Val([name |-> n, arguments |-> a])]) :
        i \in ToolIndexes, d \in ToolIds, n \in ToolNames, a \in ToolArguments}
    \cup
    {Null,
     \* an empty id and no name
     Val([index |-> Val(0), id |-> Val(<<>>), type |-> Missing,
          function |-> Val([name |-> Null, arguments |-> Val(<<"a">>)])]),
     \* no function attribute
     Val([index |-> Val(0), id |-> Val(<<"c1">>), type |-> Missing, function |-> Missing]),
     \* no index attribute
     Val([index |-> Missing, id |-> Val(<<"c1">>), type |-> Val(<<"function">>),
          function |-> Val([name |-> Val(<<"f">>), arguments |-> Val(<<"a">>)])])}

\* the number of tool-call deltas collected so far
DeltaCount(chs) ==
    Len(ConcatAll([i \in 1..Len(chs) |->
            ConcatAll([j \in 1..Len(chs[i].choices) |->
                chs[i].choices[j].delta.v.tool_calls.v])]))

ArriveToolChunk(tcs) ==
    /\ pc = "collect"
    /\ chunks' = Append(chunks,
          [BaseChunk EXCEPT !.oid = Len(chunks) + 1,
                            !.choices = <<[BaseChoice EXCEPT !.delta =
                                Val([BaseDelta EXCEPT !.tool_calls = Val(tcs)])]>>])
    /\ UNCHANGED <<pc, proc, op, result, counted, args, integration, calls>>

NextTools ==
    \/ \E n \in 1..(MaxToolDeltas - DeltaCount(chunks)) :
          \E tcs \in [1..n -> ToolDeltas] : ArriveToolChunk(tcs)
    \/ Construct
    \/ GetCombinedToolContent

SpecTools == Init /\ [][NextTools]_vars

(* Claims about the tool-call merger *)

\* every tool-call delta of the scanned chunks, in chunk order and, within a
\* chunk, in delta order
StreamDeltas ==
    ConcatAll([i \in 1..Len(proc.chunks) |->
        ConcatAll([j \in 1..Len(proc.chunks[i].choices) |->
            proc.chunks[i].choices[j].delta.v.tool_calls.v])])

\* the deltas the merger reads (an object with a function attribute) that
\* belong to index k
DeltasAt(k) ==
    LET Mine(d) == IsVal(d) /\ d.v.function.t # "missing" /\ IndexOf(d.v) = k
    IN  SelectSeq(StreamDeltas, Mine)

HasArguments(d) == IsVal(d.v.function) /\ IsVal(d.v.function.v.arguments)

\* the argument fragments present on the deltas of index k, in order
FragmentsAt(k) ==
    LET with == SelectSeq(DeltasAt(k), HasArguments)
    IN  [i \in 1..Len(with) |-> with[i].v.function.v.arguments.v]

IdSeenAt(k) == \E i \in 1..Len(DeltasAt(k)) : TruthyStr(DeltasAt(k)[i].v.id)

NameSeenAt(k) ==
    \E i \in 1..Len(DeltasAt(k)) :
        /\ IsVal(DeltasAt(k)[i].v.function)
        /\ TruthyStr(DeltasAt(k)[i].v.function.v.name)

StreamIndexes == {IndexOf(StreamDeltas[i].v) : i \in {j \in 1..Len(StreamDeltas) :
                                                        IsVal(StreamDeltas[j])}}

\* C3: every returned tool call has a non-empty id and a non-empty name, each
\* carried by some delta of its index; an index for which no id or no name was
\* accumulated yields no tool call.
C3_EmittedHaveIdAndName ==
    Returned("get_combined_tool_content") =>
        /\ \A i \in 1..Len(result.v) :
              LET tc == result.v[i] IN
              /\ TruthyStr(tc.id) /\ TruthyStr(tc.name)
              /\ \E j \in 1..Len(DeltasAt(tc.index)) :
                    DeltasAt(tc.index)[j].v.id = tc.id
              /\ \E j \in 1..Len(DeltasAt(tc.index)) :
                    /\ IsVal(DeltasAt(tc.index)[j].v.function)
                    /\ DeltasAt(tc.index)[j].v.function.v.name = tc.name
        /\ \A k \in StreamIndexes :
              (~IdSeenAt(k) \/ ~NameSeenAt(k)) =>
                  \A i \in 1..Len(result.v) : result.v[i].index # k

C3_Witness ==
    /\ Returned("get_combined_tool_content")
    /\ Len(result.v) = 1
    /\ result.v[1].index = 1
    /\ NameSeenAt(0) /\ ~IdSeenAt(0)

\* C4 (as claimed): the arguments of an emitted tool call are the concatenation
\* of the argument fragments present on the deltas of its index, in order, and
\* "{}" when no fragment is present.
C4_ArgumentsConcatOrDefault ==
    Returned("get_combined_tool_content") =>
        \A i \in 1..Len(result.v) :
            result.v[i].arguments =
                IF FragmentsAt(result.v[i].index) = <<>> THEN EmptyJsonObject
                ELSE Flatten(FragmentsAt(result.v[i].index))

\* C4 (amended): the arguments of an emitted tool call are the concatenation of
\* the argument fragments present on the deltas of its index, in order, and
\* "{}" when that concatenation is empty (no fragment, or only empty ones).
C4_ArgumentsConcatOrDefaultWhenEmpty ==
    Returned("get_combined_tool_content") =>
        \A i \in 1..Len(result.v) :
            result.v[i].arguments =
                IF Flatten(FragmentsAt(result.v[i].index)) = <<>> THEN EmptyJsonObject
                ELSE Flatten(FragmentsAt(result.v[i].index))

C4_Witness ==
    /\ Returned("get_combined_tool_content")
    /\ Len(proc.chunks) = 2
    /\ Len(result.v) = 1
    /\ result.v[1].arguments = <<"b", "a">>

C4_WitnessDefault ==
    /\ Returned("get_combined_tool_content")
    /\ Len(result.v) = 1
    /\ FragmentsAt(result.v[1].index) = <<<<>>>>
    /\ result.v[1].arguments = EmptyJsonObject

\* C5: the emitted tool calls are in strictly ascending order of index, hence
\* at most one per index, whatever the order in which the indexes first appear.
C5_AscendingDistinctIndexes ==
    Returned("get_combined_tool_content") =>
        \A i, j \in 1..Len(result.v) : i < j => result.v[i].index < result.v[j].index

C5_Witness ==
    /\ Returned("get_combined_tool_content")
    /\ Len(result.v) = 2
    /\ IsVal(StreamDeltas[1]) /\ IndexOf(StreamDeltas[1].v) = 1
    /\ result.v[1].index = 0 /\ result.v[2].index = 1

----------------------------------------------------------------------------
(* Tool-call headers: the caller collects chunks of one tool-call delta     *)
(* each, the deltas differing in index, id, name and type                   *)

MaxHeaderDeltas == 3

\* id, name and type of a delta: a first header, a second header of another
\* type, a continuation without any, empty strings, a name with a type, an
\* id alone
ToolHeaders ==
    {[id |-> Val(<<"c1">>), name |-> Val(<<"f">>), type |-> Missing],
     [id |-> Val(<<"c2">>), name |-> Val(<<"g">>), type |-> Val(<<"custom">>)],
     [id |-> Null, name |-> Null, type |-> Null],
     [id |-> Val(<<>>), name |-> Val(<<>>), type |-> Val(<<>>)],
     [id |-> Null, name |-> Val(<<"g">>), type |-> Val(<<"function">>)],
     [id |-> Val(<<"c2">>), name |-> Null, type |-> Missing]}

\* a chunk arrives with one delta of that index and header
ArriveToolHeader(index, h) ==
    /\ Len(chunks) < MaxHeaderDeltas
    /\ ArriveToolChunk(<<Val([index |-> index, id |-> h.id, type |-> h.type,
                              function |-> Val([name |-> h.name,
                                                arguments |-> Val(<<"a">>)])])>>)

NextToolHeaders ==
    \/ \E index \in ToolIndexes, h \in ToolHeaders : ArriveToolHeader(index, h)
    \/ Construct
    \/ GetCombinedToolContent

SpecToolHeaders == Init /\ [][NextToolHeaders]_vars

(* Claims about the headers of the tool calls *)

\* the non-empty values of a header field on the deltas of index k, in order;
\* Field(d) is the field of the delta d
NonEmptyAt(k, Field(_)) ==
    LET with == SelectSeq(DeltasAt(k), LAMBDA d : TruthyStr(Field(d)))
    IN  [i \in 1..Len(with) |-> Field(with[i]).v]

IdOfDelta(d) == d.v.id
TypeOfDelta(d) == d.v.type
NameOfDelta(d) == IF IsVal(d.v.function) THEN d.v.function.v.name ELSE Null

LastOrDefault(values, default) ==
    IF values = <<>> THEN default ELSE values[Len(values)]

\* C30: the id, name and type of an emitted tool call are the last non-empty
\* id, name and type on the deltas of its index, an empty or absent value
\* never replacing an earlier one; the type is "function" when no delta of
\* the index carries a non-empty type.
C30_LastNonEmptyHeaderWins ==
    Returned("get_combined_tool_content") =>
        \A i \in 1..Len(result.v) :
            LET tc == result.v[i] IN
            /\ NonEmptyAt(tc.index, IdOfDelta) # <<>>
            /\ tc.id = Val(LastOrDefault(NonEmptyAt(tc.index, IdOfDelta), <<>>))
            /\ NonEmptyAt(tc.index, NameOfDelta) # <<>>
            /\ tc.name = Val(LastOrDefault(NonEmptyAt(tc.index, NameOfDelta), <<>>))
            /\ tc.type = LastOrDefault(NonEmptyAt(tc.index, TypeOfDelta), <<"function">>)

\* c1/f, then c2/g of type custom, then a delta with empty strings: c2, g, custom
C30_Witness ==
    /\ Returned("get_combined_tool_content")
    /\ Len(proc.chunks) = 3
    /\ Len(DeltasAt(0)) = 3
    /\ DeltasAt(0)[1].v.id = Val(<<"c1">>)
    /\ DeltasAt(0)[2].v.id = Val(<<"c2">>)
    /\ DeltasAt(0)[2].v.type = Val(<<"custom">>)
    /\ DeltasAt(0)[3].v.id = Val(<<>>)
    /\ DeltasAt(0)[3].v.type = Val(<<>>)
    /\ Len(result.v) = 1
    /\ result.v[1].id = Val(<<"c2">>)
    /\ result.v[1].name = Val(<<"g">>)
    /\ result.v[1].type = <<"custom">>

\* no delta of the index carries a type: "function"
C30_WitnessDefault ==
    /\ Returned("get_combined_tool_content")
    /\ Len(result.v) = 1
    /\ NonEmptyAt(result.v[1].index, TypeOfDelta) = <<>>
    /\ result.v[1].type = <<"function">>

----------------------------------------------------------------------------
(* ChunkProcessor.get_combined_function_call_content                        *)
(*                                                                          *)
(* A function-call delta is Val([name, arguments]); a delta without the     *)
(* key has function_call Missing.                                           *)

\* lines 182-184: the name read from the first choice of the first chunk
FirstFunctionCallName(chs) ==
    IF chs = <<>> \/ chs[1].choices = <<>> THEN Raise("IndexError")
    ELSE LET delta == chs[1].choices[1].delta IN
         IF delta.t = "missing" THEN Raise("KeyError")           \* ["delta"]
         ELSE IF delta.t = "null" THEN Raise("AttributeError")   \* None.get
         ELSE IF ~IsVal(delta.v.function_call)
              THEN Raise("AttributeError")                       \* "".name, None.name
         ELSE Ok(delta.v.function_call.v.name)

\* a variant without the test of line 193
ArgumentsOfChoiceUnchecked(choice) ==
    IF choice.delta.t = "missing" THEN Raise("AttributeError")
    ELSE IF choice.delta.t = "null" THEN Raise("AttributeError")
    ELSE IF ~IsVal(choice.delta.v.function_call) THEN Raise("AttributeError")
    ELSE IF ~IsVal(choice.delta.v.function_call.v.arguments) THEN Ok(<<Null>>)
    ELSE Ok(<<choice.delta.v.function_call.v.arguments>>)

\* lines 188-196: what one choice adds to argument_list
ArgumentsOfChoice(choice) ==
    IF choice.delta.t = "missing" THEN Ok(<<>>)           \* "" is not a function call
    ELSE IF choice.delta.t = "null" THEN Raise("AttributeError")
    ELSE IF ~IsVal(choice.delta.v.function_call) THEN Ok(<<>>)
    ELSE IF ~IsVal(choice.delta.v.function_call.v.arguments) THEN Ok(<<Null>>)
    ELSE Ok(<<choice.delta.v.function_call.v.arguments>>)

\* lines 178-203: the FunctionCall returned, or the error raised
get_combined_function_call_content(function_call_chunks) ==
    LET name == FirstFunctionCallName(function_call_chunks)
        choices == AllChoices(function_call_chunks)
        per_choice == [i \in 1..Len(choices) |-> ArgumentsOfChoice(choices[i])]
        failing == {i \in 1..Len(per_choice) : ~per_choice[i].ok}
        argument_list == ConcatAll([i \in 1..Len(per_choice) |-> per_choice[i].v])
    IN  IF ~name.ok THEN name
        ELSE IF failing # {}
        THEN per_choice[CHOOSE i \in failing : \A j \in failing : i <= j]
        ELSE IF \E i \in 1..Len(argument_list) : argument_list[i] = Null
        THEN Raise("TypeError")                                  \* "".join of a None
        ELSE Ok([name |-> name.v,
                 arguments |-> Flatten([i \in 1..Len(argument_list) |->
                                           argument_list[i].v])])

GetCombinedFunctionCallContent ==
    /\ pc = "ready"
    /\ pc' = "done"
    /\ op' = "get_combined_function_call_content"
    /\ result' = get_combined_function_call_content(proc.chunks)
    /\ UNCHANGED <<chunks, proc, counted, args, integration, calls>>

----------------------------------------------------------------------------
(* Function calls: the caller collects chunks whose delta carries a         *)
(* function-call delta, a None one, or none                                 *)

MaxFunctionChunks == 3

ArriveFunctionChunk(function_call) ==
    /\ pc = "collect"
    /\ Len(chunks) < MaxFunctionChunks
    /\ chunks' = Append(chunks,
          [BaseChunk EXCEPT !.oid = Len(chunks) + 1,
                            !.choices = <<[BaseChoice EXCEPT !.delta =
                                Val([BaseDelta EXCEPT !.function_call = function_call])]>>])
    /\ UNCHANGED <<pc, proc, op, result, counted, args, integration, calls>>

NextFunction ==
    \/ \E function_call \in
             {Missing, Null} \cup
             {Val([name |-> Val(n), arguments |-> Val(a)]) :
                 n \in {<<"f">>, <<"g">>}, a \in {<<>>, <<"a">>, <<"b">>}} :
          ArriveFunctionChunk(function_call)
    \/ Construct
    \/ GetCombinedFunctionCallContent

SpecFunction == Init /\ [][NextFunction]_vars

(* Claims about the function-call merger *)

\* the function-call deltas of the scanned chunks, in order
FunctionCallsSeen ==
    LET Carries(choice) == IsVal(choice.delta) /\ IsVal(choice.delta.v.function_call)
        with == SelectSeq(AllChoices(proc.chunks), Carries)
    IN  [i \in 1..Len(with) |-> with[i].delta.v.function_call.v]

\* C31: get_combined_function_call_content always returns a FunctionCall, and
\* its name is that of the first function-call delta in chunk order, also when
\* the first chunk carries none.
C31_AlwaysReturnsFirstName ==
    Called("get_combined_function_call_content") =>
        /\ result.ok
        /\ FunctionCallsSeen # <<>> => result.v.name = FunctionCallsSeen[1].name

\* C32: the arguments of the returned FunctionCall are the argument fragments
\* of the function-call deltas of all chunks, concatenated in order; a chunk
\* without a function-call delta after the first adds nothing and raises
\* nothing.
C32_ArgumentsAreOrderedConcatenation ==
    Called("get_combined_function_call_content") =>
        /\ IsVal(proc.chunks[1].choices[1].delta.v.function_call) => result.ok
        /\ result.ok =>
              result.v.arguments =
                  Flatten([i \in 1..Len(FunctionCallsSeen) |->
                              FunctionCallsSeen[i].arguments.v])

\* "b", no function call, "a" merge to "ba"
C32_Witness ==
    /\ Returned("get_combined_function_call_content")
    /\ Len(proc.chunks) = 3
    /\ ~IsVal(proc.chunks[2].choices[1].delta.v.function_call)
    /\ result.v.arguments = <<"b", "a">>

----------------------------------------------------------------------------
(* ChunkProcessor.get_combined_content, get_combined_reasoning_content *)

\* a variant without the `continue` of line 215: the None reaches "".join
ContentOfChoiceKeepingNone(choice, delta_key) ==
    IF choice.delta.t = "missing" THEN Ok(<<<<>>>>)
    ELSE IF choice.delta.t = "null" THEN Raise("AttributeError")
    ELSE IF choice.delta.v[delta_key].t = "missing" THEN Ok(<<<<>>>>)
    ELSE IF choice.delta.v[delta_key].t = "null" THEN Raise("TypeError")
    ELSE Ok(<<choice.delta.v[delta_key].v>>)

\* lines 212-216: what one choice adds to content_list
ContentOfChoice(choice, delta_key) ==
    IF choice.delta.t = "missing" THEN Ok(<<<<>>>>)        \* {}.get(delta_key, "")
    ELSE IF choice.delta.t = "null" THEN Raise("AttributeError")
    ELSE IF choice.delta.v[delta_key].t = "missing" THEN Ok(<<<<>>>>)
    ELSE IF choice.delta.v[delta_key].t = "null" THEN Ok(<<>>)
    ELSE Ok(<<choice.delta.v[delta_key].v>>)

\* a variant that keeps the latest fragment only
LastFragment(content_list) ==
    IF content_list = <<>> THEN <<>> ELSE content_list[Len(content_list)]

\* line 219: "".join(content_list)
JoinContent(content_list) == Flatten(content_list)

get_combined_content(chs, delta_key) ==
    LET per_choice == [i \in 1..Len(AllChoices(chs)) |->
                          ContentOfChoice(AllChoices(chs)[i], delta_key)]
        failing == {i \in 1..Len(per_choice) : ~per_choice[i].ok}
    IN  IF failing # {}
        THEN per_choice[CHOOSE i \in failing : \A j \in failing : i <= j]
        ELSE Ok(JoinContent(ConcatAll([i \in 1..Len(per_choice) |-> per_choice[i].v])))

get_combined_reasoning_content(chs) == get_combined_content(chs, "reasoning_content")

GetCombinedContent ==
    /\ pc = "ready"
    /\ pc' = "done"
    /\ op' = "get_combined_content"
    /\ result' = get_combined_content(proc.chunks, "content")
    /\ UNCHANGED <<chunks, proc, counted, args, integration, calls>>

GetCombinedReasoningContent ==
    /\ pc = "ready"
    /\ pc' = "done"
    /\ op' = "get_combined_reasoning_content"
    /\ result' = get_combined_reasoning_content(proc.chunks)
    /\ UNCHANGED <<chunks, proc, counted, args, integration, calls>>

----------------------------------------------------------------------------
(* Content: the caller collects chunks whose choices carry text fragments   *)

MaxContentChoices == 3

ContentFragments == {Null, Val(<<>>), Val(<<"a">>), Val(<<"b">>)}
ReasoningFragments == {Null, Val(<<"r">>)}

ContentChoices ==
    {[BaseChoice EXCEPT !.delta = Val([BaseDelta EXCEPT !.content = c,
                                                        !.reasoning_content = r])] :
        c \in ContentFragments, r \in ReasoningFragments}
    \cup
    {[BaseChoice EXCEPT !.delta = Missing],
     [BaseChoice EXCEPT !.delta = Null],
     [BaseChoice EXCEPT !.delta = Val([BaseDelta EXCEPT
                                          !.content = Missing,
                                          !.reasoning_content = Val(<<"s">>)])]}

ChoiceCount(chs) == Len(AllChoices(chs))

ArriveContentChunk(choices) ==
    /\ pc = "collect"
    /\ chunks' = Append(chunks, [BaseChunk EXCEPT !.oid = Len(chunks) + 1,
                                                   !.choices = choices])
    /\ UNCHANGED <<pc, proc, op, result, counted, args, integration, calls>>

NextContent ==
    \/ \E n \in 1..(MaxContentChoices - ChoiceCount(chunks)) :
          \E choices \in [1..n -> ContentChoices] : ArriveContentChunk(choices)
    \/ Construct
    \/ GetCombinedContent
    \/ GetCombinedReasoningContent

SpecContent == Init /\ [][NextContent]_vars

(* Claims about the content merger *)

\* the merge of the whole sequence against the merges of its two parts
SplitsAgree(whole, delta_key) ==
    \A k \in 0..Len(proc.chunks) :
        LET left == get_combined_content(SubSeq(proc.chunks, 1, k), delta_key)
            right == get_combined_content(
                         SubSeq(proc.chunks, k + 1, Len(proc.chunks)), delta_key)
        IN  IF whole.ok THEN left.ok /\ right.ok /\ left.v \o right.v = whole.v
            ELSE ~left.ok \/ ~right.ok

\* C9: for every split of the chunk sequence into two contiguous parts, the
\* content merged from the first part followed by the content merged from the
\* second is the content merged from the whole; likewise reasoning_content.
C9_MergeOfPartsIsMergeOfWhole ==
    /\ (pc = "done" /\ op = "get_combined_content") => SplitsAgree(result, "content")
    /\ (pc = "done" /\ op = "get_combined_reasoning_content") =>
           SplitsAgree(result, "reasoning_content")

C9_Witness ==
    /\ Returned("get_combined_content")
    /\ Len(proc.chunks) = 3
    /\ result.v = <<"b", "a">>
    /\ \E i \in 1..3 :
          /\ IsVal(proc.chunks[i].choices[1].delta)
          /\ proc.chunks[i].choices[1].delta.v.content = Null

\* the str a choice holds under delta_key, the empty str when its delta or
\* the field is missing or None
FragmentOf(choice, delta_key) ==
    IF IsVal(choice.delta) /\ IsVal(choice.delta.v[delta_key])
    THEN choice.delta.v[delta_key].v
    ELSE <<>>

\* the fragments of every choice of every scanned chunk, in order, as one str
FragmentsInOrder(delta_key) ==
    Flatten([i \in 1..Len(AllChoices(proc.chunks)) |->
                FragmentOf(AllChoices(proc.chunks)[i], delta_key)])

NoNullDelta == \A i \in 1..Len(AllChoices(proc.chunks)) :
                  AllChoices(proc.chunks)[i].delta # Null

\* C26: get_combined_content returns the concatenation, in chunk and choice
\* order, of the content of every delta, a delta whose content is None or
\* missing adding nothing and raising nothing; get_combined_reasoning_content
\* is the same over reasoning_content.
C26_ContentIsOrderedConcatenation ==
    /\ Called("get_combined_content") =>
          /\ NoNullDelta => result.ok
          /\ result.ok => result.v = FragmentsInOrder("content")
    /\ Called("get_combined_reasoning_content") =>
          /\ NoNullDelta => result.ok
          /\ result.ok => result.v = FragmentsInOrder("reasoning_content")

\* "a", None, "b" merge to "ab"
C26_Witness ==
    /\ Returned("get_combined_content")
    /\ Len(proc.chunks) = 3
    /\ \A i \in 1..3 : IsVal(proc.chunks[i].choices[1].delta)
    /\ proc.chunks[1].choices[1].delta.v.content = Val(<<"a">>)
    /\ proc.chunks[2].choices[1].delta.v.content = Null
    /\ proc.chunks[3].choices[1].delta.v.content = Val(<<"b">>)
    /\ result.v = <<"a", "b">>

----------------------------------------------------------------------------
(* concatenate_base64_list                                                  *)
(*                                                                          *)
(* bytes are sequences of numbers 0..255; a base64 str is a sequence of     *)
(* alphabet positions 0..63 and Pad, the "=" sign.                          *)

Pad == 64

RECURSIVE b64encode(_)
\* base64.b64encode: three bytes to four characters, the last group padded
b64encode(b) ==
    IF b = <<>> THEN <<>>
    ELSE IF Len(b) = 1
         THEN <<b[1] \div 4, (b[1] % 4) * 16, Pad, Pad>>
    ELSE IF Len(b) = 2
         THEN <<b[1] \div 4, (b[1] % 4) * 16 + b[2] \div 16, (b[2] % 16) * 4, Pad>>
    ELSE <<b[1] \div 4, (b[1] % 4) * 16 + b[2] \div 16,
           (b[2] % 16) * 4 + b[3] \div 64, b[3] % 64>>
         \o b64encode(SubSeq(b, 4, Len(b)))

RECURSIVE b64decode(_)
\* base64.b64decode of well-formed text: four characters to three bytes; a
\* padded group ends the data, and what follows it is not read
b64decode(s) ==
    IF Len(s) < 4 THEN <<>>
    ELSE IF s[3] = Pad
         THEN <<s[1] * 4 + s[2] \div 16>>
    ELSE IF s[4] = Pad
         THEN <<s[1] * 4 + s[2] \div 16, (s[2] % 16) * 16 + s[3] \div 4>>
    ELSE <<s[1] * 4 + s[2] \div 16, (s[2] % 16) * 16 + s[3] \div 4,
           (s[3] % 4) * 64 + s[4]>>
         \o b64decode(SubSeq(s, 5, Len(s)))

\* a variant that joins the encoded texts
JoinBase64Text(base64_strings) == Flatten(base64_strings)

\* lines 575-578
concatenate_base64_list(base64_strings) ==
    b64encode(Flatten([i \in 1..Len(base64_strings) |-> b64decode(base64_strings[i])]))

----------------------------------------------------------------------------
(* ChunkProcessor.get_combined_audio_content                                *)

\* line 316: the lifetime added to the current time
DefaultExpiry == 3600

\* lines 300-302: the audio delta of a choice, Null if there is none
AudioOfChoice(choice) ==
    IF ~IsVal(choice.delta) THEN Null                      \* choice.get("delta") or {}
    ELSE IF ~IsVal(choice.delta.v.audio) THEN Null
    ELSE choice.delta.v.audio

\* lines 303-311, for one audio delta
AudioStep(acc, audio) ==
    [base64_data_list |-> IF IsVal(audio.data) THEN Append(acc.base64_data_list, audio.data.v)
                          ELSE acc.base64_data_list,
     transcript_list |-> IF IsVal(audio.transcript)
                         THEN Append(acc.transcript_list, audio.transcript.v)
                         ELSE acc.transcript_list,
     expires_at |-> IF IsVal(audio.expires_at) THEN audio.expires_at ELSE acc.expires_at,
     id |-> IF IsVal(audio.id) THEN audio.id ELSE acc.id]

RECURSIVE AudioFold(_, _)
AudioFold(acc, choices) ==
    IF choices = <<>> THEN acc
    ELSE AudioFold(IF IsVal(AudioOfChoice(Head(choices)))
                   THEN AudioStep(acc, AudioOfChoice(Head(choices)).v)
                   ELSE acc,
                   Tail(choices))

\* now is time.time() at the return statement
get_combined_audio_content(chs, now) ==
    LET acc == AudioFold([base64_data_list |-> <<>>, transcript_list |-> <<>>,
                          expires_at |-> Null, id |-> Null], AllChoices(chs))
    IN  Ok([data |-> concatenate_base64_list(acc.base64_data_list),
            expires_at |-> IF TruthyInt(acc.expires_at) THEN acc.expires_at.v
                           ELSE now + DefaultExpiry,
            transcript |-> Flatten(acc.transcript_list),
            id |-> acc.id])

GetCombinedAudioContent(now) ==
    /\ pc = "ready"
    /\ pc' = "done"
    /\ op' = "get_combined_audio_content"
    /\ result' = get_combined_audio_content(proc.chunks, now)
    /\ args' = [now |-> now]
    /\ UNCHANGED <<chunks, proc, counted, integration, calls>>

----------------------------------------------------------------------------
(* Audio: the caller collects chunks that carry base64 audio fragments      *)

MaxAudioChunks == 2

MaxFragmentBytes == 3

AudioBytes == {77, 255}

BaseAudio == [data |-> Missing, transcript |-> Missing, expires_at |-> Missing, id |-> Missing]

\* the valid base64 fragments: the encodings of 0..MaxFragmentBytes bytes
Base64Fragments ==
    {b64encode(b) : b \in UNION {[1..n -> AudioBytes] : n \in 0..MaxFragmentBytes}}

AudioDeltas ==
    {Missing, Val([BaseAudio EXCEPT !.data = Null])}
    \cup {Val([BaseAudio EXCEPT !.data = Val(f)]) : f \in Base64Fragments}

ClockValues == {1000}

ArriveAudioChunk(audio) ==
    /\ pc = "collect"
    /\ Len(chunks) < MaxAudioChunks
    /\ chunks' = Append(chunks,
          [BaseChunk EXCEPT !.oid = Len(chunks) + 1,
                            !.choices = <<[BaseChoice EXCEPT !.delta =
                                Val([BaseDelta EXCEPT !.audio = audio])]>>])
    /\ UNCHANGED <<pc, proc, op, result, counted, args, integration, calls>>

NextAudio ==
    \/ \E a \in AudioDeltas : ArriveAudioChunk(a)
    \/ Construct
    \/ \E now \in ClockValues : GetCombinedAudioContent(now)

SpecAudio == Init /\ [][NextAudio]_vars

(* Claims about the audio merger *)

\* the base64 fragments carried by the scanned chunks, in order
AudioFragments ==
    LET Carries(choice) == /\ IsVal(AudioOfChoice(choice))
                           /\ IsVal(AudioOfChoice(choice).v.data)
        with == SelectSeq(AllChoices(proc.chunks), Carries)
    IN  [i \in 1..Len(with) |-> with[i].delta.v.audio.v.data.v]

\* the bytes a fragment stands for: those whose encoding it is
BytesOf(f) ==
    CHOOSE b \in UNION {[1..n -> AudioBytes] : n \in 0..MaxFragmentBytes} : b64encode(b) = f

\* C10: decoding the merged audio data gives the bytes of the fragments, in
\* order; with no fragment the merged data is the empty string and no error is
\* raised.
C10_DecodedIsByteConcatenation ==
    (pc = "done" /\ op = "get_combined_audio_content") =>
        /\ result.ok
        /\ b64decode(result.v.data) =
               Flatten([i \in 1..Len(AudioFragments) |-> BytesOf(AudioFragments[i])])
        /\ AudioFragments = <<>> => result.v.data = <<>>

C10_Witness ==
    /\ Returned("get_combined_audio_content")
    /\ Len(AudioFragments) = 2
    /\ Len(BytesOf(AudioFragments[1])) = 1
    /\ Len(BytesOf(AudioFragments[2])) = 2
    /\ b64decode(result.v.data) = <<77, 255, 77>>

C10_WitnessEmpty ==
    /\ Returned("get_combined_audio_content")
    /\ AudioFragments = <<>>
    /\ result.v.data = <<>>

----------------------------------------------------------------------------
(* Audio id and expiry: the caller collects chunks whose audio delta        *)
(* carries an id and an expires_at, each absent, None or a value            *)

NextAudioHeaders ==
    \/ \E e \in {Missing, Null, Val(0), Val(5), Val(6)},
          i \in {Missing, Null, Val(<<"i">>), Val(<<"j">>)} :
          ArriveAudioChunk(Val([BaseAudio EXCEPT !.expires_at = e, !.id = i]))
    \/ ArriveAudioChunk(Missing)
    \/ Construct
    \/ \E now \in ClockValues : GetCombinedAudioContent(now)

SpecAudioHeaders == Init /\ [][NextAudioHeaders]_vars

(* Claims about the id and the expiry of the audio *)

\* the audio deltas of the scanned chunks, in order
AudioDeltasSeen ==
    LET Carries(choice) == IsVal(AudioOfChoice(choice))
        with == SelectSeq(AllChoices(proc.chunks), Carries)
    IN  [i \in 1..Len(with) |-> with[i].delta.v.audio.v]

\* the non-null values of the field f on the audio deltas, in order
SuppliedAudio(f) ==
    LET with == SelectSeq(AudioDeltasSeen, LAMBDA a : IsVal(a[f]))
    IN  [i \in 1..Len(with) |-> with[i][f].v]

\* C33: the returned id is the last non-null id and the returned expires_at
\* the last non-null expires_at of the audio deltas in chunk order; expires_at
\* is the current time plus 3600 only when no audio delta supplied one, and
\* the id is None when none supplied one.
C33_LastSuppliedIdAndExpiry ==
    Called("get_combined_audio_content") =>
        /\ result.ok
        /\ result.v.id = IF SuppliedAudio("id") = <<>> THEN Null
                         ELSE Val(SuppliedAudio("id")[Len(SuppliedAudio("id"))])
        /\ result.v.expires_at =
              IF SuppliedAudio("expires_at") = <<>> THEN args.now + DefaultExpiry
              ELSE SuppliedAudio("expires_at")[Len(SuppliedAudio("expires_at"))]

----------------------------------------------------------------------------
(* ChunkProcessor._get_chunk_id *)

RECURSIVE last_chunk_id(_)
\* a variant that keeps scanning and returns the last non-empty id
last_chunk_id(chs) ==
    IF chs = <<>> THEN <<>>
    ELSE IF last_chunk_id(Tail(chs)) # <<>> THEN last_chunk_id(Tail(chs))
    ELSE IF TruthyStr(Head(chs).id) THEN Head(chs).id.v
    ELSE <<>>

RECURSIVE get_chunk_id(_)
\* lines 65-68: chunk.get("id") is falsy when the id is missing, None or ""
get_chunk_id(chs) ==
    IF chs = <<>> THEN <<>>
    ELSE IF TruthyStr(Head(chs).id) THEN Head(chs).id.v
    ELSE get_chunk_id(Tail(chs))

GetChunkId ==
    /\ pc = "ready"
    /\ pc' = "done"
    /\ op' = "_get_chunk_id"
    /\ result' = Ok(get_chunk_id(proc.chunks))
    /\ UNCHANGED <<chunks, proc, counted, args, integration, calls>>

----------------------------------------------------------------------------
(* ChunkProcessor.update_model_response_with_hidden_params                  *)
(*                                                                          *)
(* model_response is Null (None) or Val([id, hidden_params]), hidden_params *)
(* Missing when the object has no _hidden_params attribute; chunk is Null   *)
(* (None) or Val([hidden_params]), hidden_params Missing when the dict has  *)
(* no "_hidden_params" key.  A hidden_params mapping is a record as         *)
(* HiddenParams makes it; the empty dict has both entries Missing.          *)

EmptyHiddenParams == [created_at |-> Missing, usage |-> Missing]

\* lines 49-57: the response that is returned (the object passed in, with
\* its attribute reassigned to chunk.get("_hidden_params", {}))
update_model_response_with_hidden_params(model_response, chunk) ==
    IF chunk = Null THEN model_response
    ELSE IF model_response # Null /\ model_response.v.hidden_params # Missing
         THEN Val([model_response.v EXCEPT
                      !.hidden_params = IF chunk.v.hidden_params = Missing
                                        THEN Val(EmptyHiddenParams)
                                        ELSE chunk.v.hidden_params])
    ELSE model_response

UpdateModelResponseWithHiddenParams(model_response, chunk) ==
    /\ pc = "ready"
    /\ pc' = "done"
    /\ op' = "update_model_response_with_hidden_params"
    /\ args' = [model_response |-> model_response, chunk |-> chunk]
    /\ result' = Ok(update_model_response_with_hidden_params(model_response, chunk))
    /\ UNCHANGED <<chunks, proc, counted, integration, calls>>

----------------------------------------------------------------------------
(* ChunkProcessor.build_base_response *)

\* lines 81-85, for one chunk: the first choice's finish_reason, None
\* included, when the choice has the attribute or key
FinishReasonStep(finish_reason, chunk) ==
    IF Len(chunk.choices) > 0 /\ chunk.choices[1].finish_reason.t # "missing"
    THEN chunk.choices[1].finish_reason
    ELSE finish_reason

RECURSIVE FinishReasonFold(_, _)
FinishReasonFold(finish_reason, chs) ==
    IF chs = <<>> THEN finish_reason
    ELSE FinishReasonFold(FinishReasonStep(finish_reason, Head(chs)), Tail(chs))

\* the finish_reason of the choice that ModelResponse builds from the value
\* given to it: a choice built without one has the default "stop"
response_finish_reason(finish_reason) ==
    IF IsVal(finish_reason) THEN finish_reason.v ELSE <<"stop">>

\* the _hidden_params of a chunk
HiddenParams(chunk) == [created_at |-> chunk.created_at, usage |-> chunk.hp_usage]

\* lines 73-78: what reading the first chunk raises, if anything
FirstChunkError(chunk) ==
    IF \E f \in {"object", "created", "model"} : chunk[f].t = "missing"
    THEN Raise("KeyError")
    ELSE IF chunk.choices = <<>> THEN Raise("IndexError")
    ELSE IF chunk.choices[1].delta.t = "missing" THEN Raise("KeyError")
    ELSE IF chunk.choices[1].delta.t = "null" THEN Raise("TypeError")
    ELSE IF chunk.choices[1].delta.v.role.t = "missing" THEN Raise("KeyError")
    ELSE Ok(chunk)

\* a variant that passes the first-arrival chunk on
first_chunk_scanned(first_chunk, chs) == first_chunk

\* lines 71 and 80: `chunk` after the loop, the last chunk of the sequence
\* (self.first_chunk if the sequence is empty)
scanned_chunk(first_chunk, chs) == IF chs = <<>> THEN first_chunk ELSE chs[Len(chs)]

\* the chunk as chunk.get("_hidden_params", {}) of line 55 sees it: a response
\* object has the attribute, a plain dict of this model has no such key
AsDict(chunk) ==
    Val([hidden_params |-> IF chunk.is_response THEN Val(HiddenParams(chunk))
                           ELSE Missing])

\* first_chunk is self.first_chunk, chs the chunks argument
build_base_response(first_chunk, chs) ==
    IF ~FirstChunkError(first_chunk).ok THEN FirstChunkError(first_chunk)
    ELSE Ok([id |-> get_chunk_id(chs),
             object |-> first_chunk.object,
             created |-> first_chunk.created,
             model |-> first_chunk.model,
             system_fingerprint |-> IF IsVal(first_chunk.system_fingerprint)
                                    THEN first_chunk.system_fingerprint ELSE Null,
             role |-> first_chunk.choices[1].delta.v.role,
             content |-> <<>>,
             finish_reason |->
                 response_finish_reason(FinishReasonFold(Val(<<"stop">>), chs)),
             usage |-> [prompt_tokens |-> 0, completion_tokens |-> 0, total_tokens |-> 0],
             \* lines 109-111: the response, built with empty hidden_params,
             \* is passed on with the scan variable
             hidden_params |->
                 update_model_response_with_hidden_params(
                     Val([hidden_params |-> Val(EmptyHiddenParams)]),
                     AsDict(scanned_chunk(first_chunk, chs))).v.hidden_params.v])

BuildBaseResponse ==
    /\ pc = "ready"
    /\ pc' = "done"
    /\ op' = "build_base_response"
    /\ result' = build_base_response(proc.first_chunk, proc.chunks)
    /\ UNCHANGED <<chunks, proc, counted, args, integration, calls>>

----------------------------------------------------------------------------
(* Base response: the caller collects chunks that differ in their ordering  *)
(* hint, their header fields and the finish_reason of their first choice    *)

MaxBaseChunks == 2

\* id, object, created, model, system_fingerprint and delta.role of a chunk
Headers ==
    {[id |-> Val(<<"x">>), object |-> Val(<<"chunk">>), created |-> Val(1),
      model |-> Val(<<"m1">>), system_fingerprint |-> Val(<<"fp">>),
      role |-> Val(<<"assistant">>)],
     [id |-> Val(<<"y">>), object |-> Val(<<"chunk">>), created |-> Val(2),
      model |-> Val(<<"m2">>), system_fingerprint |-> Missing, role |-> Null],
     [id |-> Val(<<>>), object |-> Val(<<"chunk">>), created |-> Val(3),
      model |-> Val(<<"m3">>), system_fingerprint |-> Null, role |-> Missing],
     [id |-> Missing, object |-> Val(<<"chunk">>), created |-> Val(4),
      model |-> Val(<<"m4">>), system_fingerprint |-> Val(<<"fp">>),
      role |-> Val(<<"assistant">>)]}

FinishReasons == {Missing, Null, Val(<<"stop">>), Val(<<"length">>)}

ArriveBaseChunk(hint, h, finish_reason) ==
    /\ pc = "collect"
    /\ Len(chunks) < MaxBaseChunks
    /\ chunks' = Append(chunks,
          [BaseChunk EXCEPT
              !.oid = Len(chunks) + 1,
              !.created_at = hint,
              !.id = h.id, !.object = h.object, !.created = h.created,
              !.model = h.model, !.system_fingerprint = h.system_fingerprint,
              !.choices = <<[BaseChoice EXCEPT
                                !.delta = Val([BaseDelta EXCEPT !.role = h.role]),
                                !.finish_reason = finish_reason]>>])
    /\ UNCHANGED <<pc, proc, op, result, counted, args, integration, calls>>

\* a chunk without choices, as sent to carry the usage alone
ArriveChunkWithoutChoices ==
    /\ pc = "collect"
    /\ Len(chunks) < MaxBaseChunks
    /\ chunks' = Append(chunks,
          [BaseChunk EXCEPT !.oid = Len(chunks) + 1,
                            !.object = Val(<<"chunk">>), !.created = Val(5),
                            !.model = Val(<<"m5">>), !.choices = <<>>])
    /\ UNCHANGED <<pc, proc, op, result, counted, args, integration, calls>>

\* a plain dict with the header keys and no "_hidden_params" key
ArriveDictChunk ==
    /\ pc = "collect"
    /\ Len(chunks) < MaxBaseChunks
    /\ chunks' = Append(chunks,
          [BaseChunk EXCEPT
              !.oid = Len(chunks) + 1,
              !.is_response = FALSE,
              !.id = Val(<<"z">>), !.object = Val(<<"chunk">>), !.created = Val(6),
              !.model = Val(<<"m6">>),
              !.choices = <<[BaseChoice EXCEPT
                                !.delta = Val([BaseDelta EXCEPT
                                                  !.role = Val(<<"assistant">>)])]>>])
    /\ UNCHANGED <<pc, proc, op, result, counted, args, integration, calls>>

NextBase ==
    \/ \E hint \in {Missing, Val(1), Val(2)}, h \in Headers, f \in FinishReasons :
          ArriveBaseChunk(hint, h, f)
    \/ ArriveChunkWithoutChoices
    \/ ArriveDictChunk
    \/ Construct
    \/ GetChunkId
    \/ BuildBaseResponse

SpecBase == Init /\ [][NextBase]_vars

(* Claims about the base response *)

\* the positions of the scanned chunks whose first choice supplies a finish_reason
FinishReasonAt ==
    {i \in 1..Len(proc.chunks) :
        /\ proc.chunks[i].choices # <<>>
        /\ IsVal(proc.chunks[i].choices[1].finish_reason)}

\* C14: the finish_reason of the base response is the last finish_reason, in
\* scan order, that the first choice of a chunk supplies (neither null nor
\* absent), and "stop" when no chunk supplies one.
C14_LastSuppliedFinishReason ==
    Returned("build_base_response") =>
        result.v.finish_reason =
            IF FinishReasonAt = {} THEN <<"stop">>
            ELSE proc.chunks[LastOf(FinishReasonAt)].choices[1].finish_reason.v

\* the positions of the scanned chunks with a non-empty id
IdAt == {i \in 1..Len(proc.chunks) : TruthyStr(proc.chunks[i].id)}

\* C18: _get_chunk_id returns the id of the first chunk, in the order of the
\* sequence it scans, whose id is non-empty, and the empty string when every
\* id is missing or empty.
C18_FirstNonEmptyId ==
    Called("_get_chunk_id") =>
        /\ result.ok
        /\ result.v = IF IdAt = {} THEN <<>> ELSE proc.chunks[FirstOf(IdAt)].id.v

C18_Witness ==
    /\ Returned("_get_chunk_id")
    /\ Len(proc.chunks) = 2
    /\ ~TruthyStr(proc.chunks[1].id)
    /\ result.v = <<"y">>
    /\ proc.chunks[2].id = Val(<<"y">>)

C18_WitnessEmpty ==
    /\ Returned("_get_chunk_id")
    /\ Len(proc.chunks) = 2
    /\ proc.chunks[1].id = Missing
    /\ proc.chunks[2].id = Val(<<>>)
    /\ result.v = <<>>

\* C19: build_base_response takes object, created, model, system_fingerprint
\* and role from the first chunk of the list the caller gave the constructor,
\* whichever chunk the orderer put first.
C19_HeaderFromFirstArrival ==
    Returned("build_base_response") =>
        /\ result.v.object = chunks[1].object
        /\ result.v.created = chunks[1].created
        /\ result.v.model = chunks[1].model
        /\ result.v.system_fingerprint =
              (IF IsVal(chunks[1].system_fingerprint)
               THEN chunks[1].system_fingerprint ELSE Null)
        /\ result.v.role = chunks[1].choices[1].delta.v.role

C19_Witness ==
    /\ Returned("build_base_response")
    /\ proc.chunks[1] # chunks[1]
    /\ proc.chunks[1].model # chunks[1].model
    /\ proc.chunks[1].choices[1].delta.v.role # chunks[1].choices[1].delta.v.role
    /\ result.v.model = chunks[1].model
    /\ result.v.role = chunks[1].choices[1].delta.v.role

\* C35: the base response carries the hidden_params of the last chunk of the
\* sequence scanned, not those of the first-arrival chunk; they are the empty
\* mapping when that chunk has no hidden_params.
C35_HiddenParamsOfLastScanned ==
    Returned("build_base_response") =>
        LET last == proc.chunks[Len(proc.chunks)] IN
        result.v.hidden_params =
            IF last.is_response
            THEN [created_at |-> last.created_at, usage |-> last.hp_usage]
            ELSE EmptyHiddenParams

\* the first-arrival chunk carries the hint 1, the last chunk scanned the hint 2
C35_Witness ==
    /\ Returned("build_base_response")
    /\ Len(proc.chunks) = 2
    /\ proc.first_chunk.created_at = Val(1)
    /\ proc.chunks[2].created_at = Val(2)
    /\ result.v.hidden_params.created_at = Val(2)

\* the last chunk is a dict without hidden_params, after a chunk with a hint
C35_WitnessEmpty ==
    /\ Returned("build_base_response")
    /\ Len(proc.chunks) = 2
    /\ ~proc.chunks[2].is_response
    /\ result.v.hidden_params = EmptyHiddenParams

----------------------------------------------------------------------------
(* ChunkProcessor.get_combined_thinking_content                             *)
(*                                                                          *)
(* A thinking block is [type, thinking, signature, data], each Missing,     *)
(* Null or Val of a str.                                                    *)

BaseThinkingBlock ==
    [type |-> Missing, thinking |-> Missing, signature |-> Missing, data |-> Missing]

\* block.get(key, None)
GetOrNone(o) == IF IsVal(o) THEN o ELSE Null

\* lines 250-262, for one block
ThinkingStep(acc, thinking_block) ==
    IF thinking_block.type = Val(<<"redacted_thinking">>)
    THEN [acc EXCEPT !.type = "redacted_thinking",
                     !.data = GetOrNone(thinking_block.data)]
    ELSE [acc EXCEPT
            !.type = "thinking",
            !.combined_thinking_text =
                IF TruthyStr(thinking_block.thinking)
                THEN Val((IF IsVal(acc.combined_thinking_text)
                          THEN acc.combined_thinking_text.v ELSE <<>>)
                         \o thinking_block.thinking.v)
                ELSE acc.combined_thinking_text,
            !.signature = GetOrNone(thinking_block.signature)]

RECURSIVE ThinkingFold(_, _)
ThinkingFold(acc, blocks) ==
    IF blocks = <<>> THEN acc
    ELSE ThinkingFold(ThinkingStep(acc, Head(blocks)), Tail(blocks))

\* lines 246-248: the thinking blocks one choice contributes
ThinkingOfChoice(choice) ==
    IF choice.delta.t = "missing" THEN Ok(<<>>)            \* choice.get("delta", {})
    ELSE IF choice.delta.t = "null" THEN Raise("AttributeError")
    ELSE IF ~IsVal(choice.delta.v.thinking_blocks) THEN Ok(<<>>)
    ELSE Ok(choice.delta.v.thinking_blocks.v)

\* a variant that returns the list even when it is empty
ListAsIs(thinking_blocks) == Val(thinking_blocks)

\* lines 280-282
ListOrNone(thinking_blocks) ==
    IF Len(thinking_blocks) > 0 THEN Val(thinking_blocks) ELSE Null

\* lines 264-282: None, or a list holding one block
get_combined_thinking_content(chs) ==
    LET per_choice == [i \in 1..Len(AllChoices(chs)) |->
                          ThinkingOfChoice(AllChoices(chs)[i])]
        failing == {i \in 1..Len(per_choice) : ~per_choice[i].ok}
    IN  IF failing # {}
        THEN per_choice[CHOOSE i \in failing : \A j \in failing : i <= j]
        ELSE
        LET acc == ThinkingFold([combined_thinking_text |-> Null, data |-> Null,
                                 signature |-> Null, type |-> "thinking"],
                                ConcatAll([i \in 1..Len(per_choice) |-> per_choice[i].v]))
        IN  IF /\ TruthyStr(acc.combined_thinking_text)
               /\ acc.type = "thinking"
               /\ TruthyStr(acc.signature)
            THEN Ok(ListOrNone(<<[type |-> "thinking",
                                  thinking |-> acc.combined_thinking_text.v,
                                  signature |-> acc.signature.v]>>))
            ELSE IF TruthyStr(acc.data) /\ acc.type = "redacted_thinking"
            THEN Ok(ListOrNone(<<[type |-> "redacted_thinking", data |-> acc.data.v]>>))
            ELSE Ok(ListOrNone(<<>>))

GetCombinedThinkingContent ==
    /\ pc = "ready"
    /\ pc' = "done"
    /\ op' = "get_combined_thinking_content"
    /\ result' = get_combined_thinking_content(proc.chunks)
    /\ UNCHANGED <<chunks, proc, counted, args, integration, calls>>

----------------------------------------------------------------------------
(* Thinking: the caller collects chunks whose delta carries one thinking    *)
(* block, or none                                                           *)

MaxThinkingChunks == 3

\* thinking blocks with text and a signature, with text alone, with a
\* signature and empty text, with text and an empty signature; redacted
\* blocks with data
ThinkingBlocks ==
    {[BaseThinkingBlock EXCEPT !.type = Val(<<"thinking">>), !.thinking = Val(<<"t">>),
                               !.signature = Val(<<"s">>)],
     [BaseThinkingBlock EXCEPT !.type = Val(<<"thinking">>), !.thinking = Val(<<"u">>)],
     [BaseThinkingBlock EXCEPT !.type = Val(<<"thinking">>), !.thinking = Val(<<>>),
                               !.signature = Val(<<"z">>)],
     [BaseThinkingBlock EXCEPT !.type = Val(<<"thinking">>), !.thinking = Val(<<"v">>),
                               !.signature = Val(<<>>)],
     [BaseThinkingBlock EXCEPT !.type = Val(<<"redacted_thinking">>),
                               !.data = Val(<<"d">>)],
     [BaseThinkingBlock EXCEPT !.type = Val(<<"redacted_thinking">>),
                               !.data = Val(<<"e">>)]}

ArriveThinkingChunk(thinking) ==
    /\ pc = "collect"
    /\ Len(chunks) < MaxThinkingChunks
    /\ chunks' = Append(chunks,
          [BaseChunk EXCEPT !.oid = Len(chunks) + 1,
                            !.choices = <<[BaseChoice EXCEPT !.delta =
                                Val([BaseDelta EXCEPT !.thinking_blocks = thinking])]>>])
    /\ UNCHANGED <<pc, proc, op, result, counted, args, integration, calls>>

NextThinking ==
    \/ \E thinking \in {Missing} \cup {Val(<<b>>) : b \in ThinkingBlocks} :
          ArriveThinkingChunk(thinking)
    \/ Construct
    \/ GetCombinedThinkingContent

SpecThinking == Init /\ [][NextThinking]_vars

(* Claims about the thinking merger *)

\* every thinking block of the scanned chunks, in order
BlocksSeen ==
    ConcatAll([i \in 1..Len(proc.chunks) |->
        IF IsVal(proc.chunks[i].choices[1].delta.v.thinking_blocks)
        THEN proc.chunks[i].choices[1].delta.v.thinking_blocks.v ELSE <<>>])

IsRedacted(b) == b.type = Val(<<"redacted_thinking">>)

ThinkingAt == {i \in 1..Len(BlocksSeen) : ~IsRedacted(BlocksSeen[i])}
RedactedAt == {i \in 1..Len(BlocksSeen) : IsRedacted(BlocksSeen[i])}
SignedAt == {i \in ThinkingAt : TruthyStr(BlocksSeen[i].signature)}

\* the text of the thinking-variant blocks, in order
ThinkingTextSeen ==
    Flatten([i \in 1..Len(BlocksSeen) |->
                IF i \in ThinkingAt /\ IsVal(BlocksSeen[i].thinking)
                THEN BlocksSeen[i].thinking.v ELSE <<>>])

EmitsThinking ==
    /\ IsVal(result.v)
    /\ Len(result.v.v) = 1
    /\ result.v.v[1].type = "thinking"

EmitsRedacted ==
    /\ IsVal(result.v)
    /\ Len(result.v.v) = 1
    /\ result.v.v[1].type = "redacted_thinking"

\* C27: an emitted thinking block carries the last non-empty signature seen
\* on a thinking-variant block; and when thinking text and such a signature
\* were seen and the last block is a thinking-variant one, a thinking block
\* with that signature is emitted even if the later thinking blocks carry no
\* signature.
C27_LastSignatureKept ==
    Returned("get_combined_thinking_content") =>
        /\ EmitsThinking =>
              /\ SignedAt # {}
              /\ result.v.v[1].signature = BlocksSeen[LastOf(SignedAt)].signature.v
        /\ (/\ ThinkingTextSeen # <<>>
            /\ SignedAt # {}
            /\ Len(BlocksSeen) \in ThinkingAt) =>
              /\ EmitsThinking
              /\ result.v.v[1].signature = BlocksSeen[LastOf(SignedAt)].signature.v

\* thinking text was accumulated and the signature held at the end of the
\* scan (that of the last thinking-variant block) is non-empty
TextWithSignature ==
    /\ ThinkingTextSeen # <<>>
    /\ ThinkingAt # {}
    /\ TruthyStr(BlocksSeen[LastOf(ThinkingAt)].signature)

\* C28: a thinking block is emitted whenever accumulated thinking text with a
\* signature exists, whichever variant came last; a redacted_thinking block
\* is emitted, with the data of the last redacted block, exactly when a
\* redacted block was seen and no thinking text with a signature exists.
C28_VariantByContentNotByLast ==
    Returned("get_combined_thinking_content") =>
        /\ TextWithSignature => EmitsThinking
        /\ EmitsRedacted <=> (RedactedAt # {} /\ ~TextWithSignature)
        /\ EmitsRedacted => result.v.v[1].data = BlocksSeen[LastOf(RedactedAt)].data.v

\* C29: get_combined_thinking_content returns None or a list of exactly one
\* block, never an empty list and never more than one block.
C29_NoneOrOneBlock ==
    Returned("get_combined_thinking_content") =>
        \/ result.v = Null
        \/ IsVal(result.v) /\ Len(result.v.v) = 1

\* three chunks with thinking text and signatures merge into one block
C29_Witness ==
    /\ Returned("get_combined_thinking_content")
    /\ Len(BlocksSeen) = 3
    /\ EmitsThinking
    /\ result.v.v[1].thinking = <<"u", "t">>

\* nothing to emit: None, not an empty list
C29_WitnessNone ==
    /\ Returned("get_combined_thinking_content")
    /\ Len(BlocksSeen) = 2
    /\ result.v = Null

----------------------------------------------------------------------------
(* Sparse input: the caller collects chunks whose choice has no delta, a    *)
(* null delta, an empty delta, or a delta with every kind of content        *)

MaxSparseChunks == 2

SparseChoices ==
    {[BaseChoice EXCEPT !.delta = Missing],
     [BaseChoice EXCEPT !.delta = Null],
     BaseChoice,
     [BaseChoice EXCEPT !.delta = Val(
        [BaseDelta EXCEPT
            !.content = Val(<<"a">>),
            !.reasoning_content = Val(<<"r">>),
            !.thinking_blocks = Val(<<[BaseThinkingBlock EXCEPT
                                          !.type = Val(<<"thinking">>),
                                          !.thinking = Val(<<"t">>),
                                          !.signature = Val(<<"s">>)]>>),
            !.tool_calls = Val(<<Val([index |-> Val(0), id |-> Val(<<"c1">>),
                                      type |-> Missing,
                                      function |-> Val([name |-> Val(<<"f">>),
                                                        arguments |-> Val(<<"x">>)])])>>),
            !.audio = Val([data |-> Val(b64encode(<<77>>)), transcript |-> Missing,
                           expires_at |-> Val(50), id |-> Missing])])],
     [BaseChoice EXCEPT !.delta = Val(
        [BaseDelta EXCEPT
            !.content = Val(<<"b">>),
            !.thinking_blocks = Val(<<[BaseThinkingBlock EXCEPT
                                          !.type = Val(<<"redacted_thinking">>),
                                          !.data = Val(<<"d">>)]>>),
            !.tool_calls = Val(<<Val([index |-> Val(0), id |-> Missing, type |-> Missing,
                                      function |-> Val([name |-> Missing,
                                                        arguments |-> Val(<<"y">>)])])>>)])]}

ArriveSparseChunk(choice) ==
    /\ pc = "collect"
    /\ Len(chunks) < MaxSparseChunks
    /\ chunks' = Append(chunks, [BaseChunk EXCEPT !.oid = Len(chunks) + 1,
                                                   !.choices = <<choice>>])
    /\ UNCHANGED <<pc, proc, op, result, counted, args, integration, calls>>

NextSparse ==
    \/ \E choice \in SparseChoices : ArriveSparseChunk(choice)
    \/ Construct
    \/ GetCombinedContent
    \/ GetCombinedReasoningContent
    \/ GetCombinedThinkingContent
    \/ GetCombinedToolContent
    \/ GetCombinedAudioContent(1000)

SpecSparse == Init /\ [][NextSparse]_vars

(* Claims about sparse input *)

\* the chunks without the choices that have no delta or a null one
WithoutEmptyChoices(chs) ==
    [i \in 1..Len(chs) |->
        [chs[i] EXCEPT !.choices = SelectSeq(chs[i].choices,
                                             LAMBDA choice : IsVal(choice.delta))]]

\* what the merger named by op makes of chs
MergedBy(name, chs) ==
    CASE name = "get_combined_content" -> get_combined_content(chs, "content")
      [] name = "get_combined_reasoning_content" -> get_combined_reasoning_content(chs)
      [] name = "get_combined_thinking_content" -> get_combined_thinking_content(chs)
      [] name = "get_combined_tool_content" -> get_combined_tool_content(chs)
      [] name = "get_combined_audio_content" -> get_combined_audio_content(chs, args.now)

\* C17: whatever choices of the chunks have a missing or null delta, or a
\* delta lacking some of the fields, every merger returns without an error,
\* and returns what it merges from the other choices alone.
C17_SparseInputNeverRaises ==
    pc = "done" =>
        /\ result.ok
        /\ result = MergedBy(op, WithoutEmptyChoices(proc.chunks))

----------------------------------------------------------------------------
(* Side channel of the response: the caller constructs a processor and then *)
(* passes it a response and the triggering chunk                            *)

\* the chunk passed: none, a dict without hidden_params, or one whose
\* hidden_params are empty or carry a created_at
TriggeringChunks ==
    {Null} \cup
    {Val([hidden_params |-> h]) :
        h \in {Missing, Val(EmptyHiddenParams),
               Val([EmptyHiddenParams EXCEPT !.created_at = Val(1)]),
               Val([EmptyHiddenParams EXCEPT !.created_at = Val(2)])}}

\* the response passed: none, an object without the attribute, or one whose
\* hidden_params are any of those mappings
ModelResponses ==
    {Null} \cup
    {Val([id |-> <<"x">>, hidden_params |-> c.v.hidden_params]) :
        c \in TriggeringChunks \ {Null}}

NextHidden ==
    \/ \E h \in HintValues : ArriveHinted(h)
    \/ Construct
    \/ \E model_response \in ModelResponses, chunk \in TriggeringChunks :
          UpdateModelResponseWithHiddenParams(model_response, chunk)

SpecHidden == Init /\ [][NextHidden]_vars

(* Claims about the side channel of the response *)

\* C22: update_model_response_with_hidden_params returns the response as it
\* was passed when no chunk is passed; with the hidden_params of the chunk
\* as its own when the chunk carries hidden_params; and with its own
\* hidden_params as they were when the chunk carries none.
C22_HiddenParamsCopiedIfPresent ==
    Called("update_model_response_with_hidden_params") =>
        /\ result.ok
        /\ IF /\ args.chunk # Null
              /\ args.chunk.v.hidden_params # Missing
              /\ args.model_response # Null
              /\ args.model_response.v.hidden_params # Missing
           THEN result.v = Val([args.model_response.v EXCEPT
                                   !.hidden_params = args.chunk.v.hidden_params])
           ELSE result.v = args.model_response

----------------------------------------------------------------------------
(* EurekaIntegration (src/litellm/proxy/eureka_integration.py)              *)
(*                                                                          *)
(* The integration is [eureka_client, on_error, zoned]: eureka_client Null  *)
(* (None) or Val(n), the n-th client the library handed out; on_error TRUE  *)
(* when a callback was given to the constructor; zoned TRUE when zone and   *)
(* eureka_availability_zones were.  The client library is outside the       *)
(* integration: init_async returns a client, Ok(n), or raises, and the      *)
(* client's stop returns or raises.  on_error is a callback returning None  *)
(* (its declared type; the handlers of the repository only log).  A call    *)
(* is recorded as [to, arg, outcome].                                       *)

\* a variant that raises again after reporting to on_error
register_reraising(self, init) ==
    LET call == [to |-> "init_async",
                 arg |-> IF self.zoned THEN "zone" ELSE "eureka_server",
                 outcome |-> init]
        report == [to |-> "on_error",
                   arg |-> "EUREKA_REGISTRATION_ERROR", outcome |-> init]
    IN  IF init.ok
        THEN [integration |-> [self EXCEPT !.eureka_client = Val(init.v)],
              result |-> Ok(Null), calls |-> <<call>>]
        ELSE IF self.on_error
        THEN [integration |-> self, result |-> init, calls |-> <<call, report>>]
        ELSE [integration |-> self, result |-> init, calls |-> <<call>>]

\* lines 113-166: the integration after register(), what the call returned or
\* raised, and the calls it made.  init is the outcome of init_async; the
\* on_error call is recorded with the exception handed to it as its outcome.
register(self, init) ==
    LET call == [to |-> "init_async",
                 arg |-> IF self.zoned THEN "zone" ELSE "eureka_server",
                 outcome |-> init]
        report == [to |-> "on_error",
                   arg |-> "EUREKA_REGISTRATION_ERROR", outcome |-> init]
    IN  IF init.ok
        THEN [integration |-> [self EXCEPT !.eureka_client = Val(init.v)],
              result |-> Ok(Null), calls |-> <<call>>]
        ELSE IF self.on_error
        THEN [integration |-> self, result |-> Ok(Null), calls |-> <<call, report>>]
        ELSE [integration |-> self, result |-> init, calls |-> <<call>>]

\* a variant that lets a failing deregistration through when there is no
\* callback, as register does
stop_propagating(self, deregistration) ==
    LET call == [to |-> "eureka_client.stop",
                 arg |-> "", outcome |-> deregistration]
        report == [to |-> "on_error",
                   arg |-> "EUREKA_DEREGISTRATION_ERROR", outcome |-> deregistration]
    IN  IF ~IsVal(self.eureka_client)
        THEN [integration |-> self, result |-> Ok(Null), calls |-> <<>>]
        ELSE IF deregistration.ok
        THEN [integration |-> self, result |-> Ok(Null), calls |-> <<call>>]
        ELSE IF self.on_error
        THEN [integration |-> self, result |-> Ok(Null), calls |-> <<call, report>>]
        ELSE [integration |-> self, result |-> deregistration, calls |-> <<call>>]

\* lines 168-180; deregistration is the outcome of the client's stop
stop(self, deregistration) ==
    LET call == [to |-> "eureka_client.stop",
                 arg |-> "", outcome |-> deregistration]
        report == [to |-> "on_error",
                   arg |-> "EUREKA_DEREGISTRATION_ERROR", outcome |-> deregistration]
    IN  IF ~IsVal(self.eureka_client)
        THEN [integration |-> self, result |-> Ok(Null), calls |-> <<>>]
        ELSE IF deregistration.ok
        THEN [integration |-> self, result |-> Ok(Null), calls |-> <<call>>]
        ELSE IF self.on_error
        THEN [integration |-> self, result |-> Ok(Null), calls |-> <<call, report>>]
        ELSE [integration |-> self, result |-> Ok(Null), calls |-> <<call>>]

MaxEurekaCalls == 4

\* the clients handed out so far
ClientsMade == Cardinality({i \in 1..Len(calls) :
                               calls[i].to = "init_async" /\ calls[i].outcome.ok})

Register(succeeds) ==
    /\ integration # NoIntegration
    /\ Len(calls) < MaxEurekaCalls
    /\ LET r == register(integration,
                         IF succeeds THEN Ok(ClientsMade + 1)
                         ELSE Raise("ConnectionError"))
       IN  /\ integration' = r.integration
           /\ result' = r.result
           /\ calls' = calls \o r.calls
    /\ op' = "register"
    /\ UNCHANGED <<chunks, pc, proc, counted, args>>

Stop(succeeds) ==
    /\ integration # NoIntegration
    /\ Len(calls) < MaxEurekaCalls
    /\ LET r == stop(integration,
                     IF succeeds THEN Ok(Null) ELSE Raise("ConnectionError"))
       IN  /\ integration' = r.integration
           /\ result' = r.result
           /\ calls' = calls \o r.calls
    /\ op' = "stop"
    /\ UNCHANGED <<chunks, pc, proc, counted, args>>

\* lines 36-95: a constructed integration, with or without a callback and zones
InitEureka ==
    /\ chunks = <<>>
    /\ pc = "collect"
    /\ proc = NoProc
    /\ op = ""
    /\ result = NoResult
    /\ counted = <<>>
    /\ args = NoArgs
    /\ \E on_error \in BOOLEAN, zoned \in BOOLEAN :
          integration = [eureka_client |-> Null, on_error |-> on_error, zoned |-> zoned]
    /\ calls = <<>>

NextEureka ==
    \/ \E succeeds \in BOOLEAN : Register(succeeds)
    \/ \E succeeds \in BOOLEAN : Stop(succeeds)

SpecEureka == InitEureka /\ [][NextEureka]_vars

(* Claims about the Eureka integration *)

\* the calls made by the step
NewCalls == SubSeq(calls', Len(calls) + 1, Len(calls'))

\* the step is a register() whose init_async raised
RegisterFailed ==
    /\ op' = "register"
    /\ NewCalls # <<>>
    /\ NewCalls[1].to = "init_async"
    /\ ~NewCalls[1].outcome.ok

C36_WitnessRaised ==
    /\ op = "register"
    /\ integration # NoIntegration
    /\ ~integration.on_error
    /\ integration.eureka_client = Null
    /\ Len(calls) = 1
    /\ result = Raise("ConnectionError")

\* C37: in every sequence of register() and stop() calls, the client's stop
\* is called only after some init_async of an earlier register() returned a
\* client; a stop() without a client makes no call; and stop() always
\* returns, a failing deregistration being reported to the callback, if
\* there is one, with "EUREKA_DEREGISTRATION_ERROR".
C37_StopOnlyAfterRegistrationNeverRaises ==
    [][/\ \A i \in 1..Len(calls') :
             calls'[i].to = "eureka_client.stop" =>
                 \E j \in 1..(i - 1) :
                     calls'[j].to = "init_async" /\ calls'[j].outcome.ok
       /\ op' = "stop" =>
             /\ result' = Ok(Null)
             /\ integration.eureka_client = Null => NewCalls = <<>>
             /\ (NewCalls # <<>> /\ ~NewCalls[1].outcome.ok) =>
                   IF integration.on_error
                   THEN /\ Len(NewCalls) = 2
                        /\ NewCalls[2] = [to |-> "on_error",
                                          arg |-> "EUREKA_DEREGISTRATION_ERROR",
                                          outcome |-> NewCalls[1].outcome]
                   ELSE Len(NewCalls) = 1]_vars

\* a failed register(), a stop() that calls nothing, a register() that
\* succeeds, a stop() whose deregistration fails without a callback
C37_Witness ==
    /\ op = "stop"
    /\ integration # NoIntegration
    /\ ~integration.on_error
    /\ Len(calls) = 3
    /\ ~calls[1].outcome.ok
    /\ calls[2].to = "init_async" /\ calls[2].outcome.ok
    /\ calls[3].to = "eureka_client.stop" /\ ~calls[3].outcome.ok
    /\ result = Ok(Null)

====
